---- MODULE Spec2Model ----
(***************************************************************************)
(* The command line client of the Maestral daemon (maestral/cli.py) as a  *)
(* state machine: one command runs at a time, each command is a sequence  *)
(* of steps (pc), and the daemon of every configuration is a lifecycle    *)
(* state the commands and the environment change.                         *)
(***************************************************************************)
EXTENDS Integers, Sequences, FiniteSets, TLC

\* ------------------------------------------------------------------ bounds

\* Failed link attempts the user is given before a link call succeeds.
MaxLinkTries == 1
\* Liveness polls of the grace period of a graceful stop.
GracePolls == 2
\* Ticks of the activity loop that are counted (the loop itself has no bound).
MaxTicks == 2

\* The longest cell of the tables format_table is given.
MaxCellLen == 3
\* The widest of the narrow terminals.
MaxTerminalWidth == 8
\* The largest padding.
MaxPadding == 2
\* Calls of format_table made with the same arguments.
MaxCalls == 2

\* time.sleep(1) of the activity loop.
SleepInterval == 1

\* ------------------------------------------------------------- value sets

ConfigNames == {"maestral", "work"}
DirPaths == {"~/Dropbox (Maestral)"}
\* Dropbox paths given on the command line, as sequences of characters.
DbxPaths == {<<>>, <<"/">>, <<"a">>, <<"/", "a">>, <<"/", "/">>}
LifecycleState == {"NotRunning", "Starting", "Running", "Stopping", "Killed"}
Keys == {"q", "none", "other"}

\* Items of the daemon's sync activity; dbx_path is a sequence of characters.
EntryA == [dbx_path |-> <<"/", "d", "/", "a">>, status |-> "uploading"]
EntryB == [dbx_path |-> <<"/", "b">>, status |-> "queued"]
EntryC == [dbx_path |-> <<"/", "c">>, status |-> "downloading"]

\* What a tick of the activity loop reads from the daemon: get_activity(),
\* status and the number of sync_errors.
Snapshots ==
    [uploading : {<<>>, <<EntryA, EntryB>>, <<EntryB, EntryA>>},
     downloading : {<<>>, <<EntryC>>},
     status : {"Syncing"},
     sync_errors : {0, 1}]

\* The activity of a daemon that has nothing to sync.
IdleSnapshot ==
    [uploading |-> <<>>, downloading |-> <<>>, status |-> "Up to date",
     sync_errors |-> 0]
\* flag is the option of the commands that have one: ls --long, link -r,
\* move-dir with a new_path, analytics with --yes or --no, log level and
\* notify level with a level_name.
NoArgs ==
    [foreground |-> FALSE, verbose |-> FALSE, config_name |-> "maestral",
     flag |-> FALSE]

StrictCommands ==
    {"pause", "resume", "status", "file_status", "activity", "rebuild_index",
     "excluded_remove", "notify_snooze"}

\* The commands that enter their session with fallback=True.
FallbackCommands ==
    {"ls", "link", "move_dir", "revs", "restore", "recent_changes", "analytics",
     "account_info", "excluded_list", "excluded_add", "log_level", "notify_level"}

\* Those of them that have an option.
FlagCommands == {"ls", "link", "move_dir", "analytics", "log_level", "notify_level"}

VARIABLES
    daemon,                  \* config name -> LifecycleState
    configs,                 \* the configurations that exist: list_configs()
    pending_link,            \* config name -> the daemon's pending_link
    pending_dropbox_folder,  \* config name -> the daemon's pending_dropbox_folder
    fs,                      \* the local directories that exist
    op,                      \* the command being run ("none" before the first)
    args,                    \* the parameters the command was given
    sargs,                   \* the parameters start() was called with
    dropbox_path,            \* the dropbox_path argument of the command
    pc,                      \* the command's position
    start_res,               \* result of start_maestral_daemon_*: Start.*
    stop_res,                \* result of stop_maestral_daemon_process: Stop.*
    polls,                   \* liveness polls of the running stop
    m,                       \* the session: "none", "proxy" or "in_process"
    res,                     \* link_dialog's res
    link_log,                \* the results of the link calls of the command
    path,                    \* the path select_dbx_path_dialog returned
    idx,                     \* the next remote call of a session command's body
    key,                     \* the key the activity loop read last
    out,                     \* the outcome lines the command has echoed
    log,                     \* the calls the command has made, in order
    effects,                 \* the daemon operations that took effect
    result,                  \* how the command ended
    sync_activity,           \* the daemon's activity, status and sync errors
    snap,                    \* activity: what the running tick has pulled
    file_names,              \* activity: curses_loop's file_names
    states,                  \* activity: curses_loop's states
    screen,                  \* activity: the lines the screen shows
    prev,                    \* activity: <<snap, screen>> of the tick before
    n_ticks,                 \* activity: ticks begun, counted up to MaxTicks
    tick_log,                \* activity: the steps of the running tick
    slept,                   \* activity: time slept in the running tick
    maestral_err_list,       \* check_for_fatal_errors: m.fatal_errors as read
    err_title,               \* check_for_fatal_errors: the title echoed
    wrapped_msg,             \* check_for_fatal_errors: the message echoed
    choice,                  \* select_dbx_path_dialog: the answer for an existing path
    err,                     \* select_dbx_path_dialog: delete(dropbox_path) failed
    rows,                    \* format_table: the caller's rows
    columns,                 \* format_table: the caller's columns
    headers,                 \* format_table: the headers argument
    padding,                 \* format_table: the padding argument
    alignment,               \* format_table: the alignment argument
    wrap,                    \* format_table: the wrap argument
    terminal_width,          \* click.get_terminal_size()[0]
    natural_widths,          \* format_table: col_widths before the shrink
    col_widths,              \* format_table: col_widths the call ended with
    raised,                  \* format_table: the exception raised, or "none"
    returned,                \* format_table: the string returned
    n_calls,                 \* format_table: calls made with these arguments
    config_names,            \* configs: list_configs() before the cleanup
    name_pos,                \* configs: position of the for loop in config_names
    names,                   \* configs: list_configs() after the cleanup
    emails                   \* configs: the account of each of names

vars ==
    <<daemon, configs, pending_link, pending_dropbox_folder, fs, op, args, sargs,
      dropbox_path, pc, start_res, stop_res, polls, m, res, link_log, path, idx,
      key, out, log, effects, result, sync_activity, snap, file_names, states,
      screen, prev, n_ticks, tick_log, slept, maestral_err_list, err_title,
      wrapped_msg, choice, err, rows, columns, headers, padding, alignment, wrap,
      terminal_width, natural_widths, col_widths, raised, returned, n_calls,
      config_names, name_pos, names, emails>>

world == <<daemon, configs, pending_link, pending_dropbox_folder, fs, sync_activity>>

\* The locals of activity's curses_loop.
curses_loop == <<snap, file_names, states, screen, prev, n_ticks, tick_log, slept>>

\* The locals of check_for_fatal_errors.
fatal == <<maestral_err_list, err_title, wrapped_msg>>

\* The locals of select_dbx_path_dialog that its prompts set.
dialog == <<choice, err>>

\* A call of format_table: its arguments, the terminal and its outcome.
table ==
    <<rows, columns, headers, padding, alignment, wrap, terminal_width,
      natural_widths, col_widths, raised, returned, n_calls>>

\* The locals of configs.
configs_locals == <<config_names, name_pos, names, emails>>

\* LEFT, CENTER, RIGHT = range(3)
LEFT == 0
CENTER == 1
RIGHT == 2

\* An optional argument: None, or the value given. Python takes None and the
\* empty list alike for false.
None == [some |-> FALSE, val |-> <<>>]
Some(x) == [some |-> TRUE, val |-> x]
Truthy(o) == o.some /\ o.val # <<>>

\* The alignment argument: None, an int, or a list of ints. 'not alignment'
\* is true of None, of 0 and of the empty list.
NoAlignment == [kind |-> "none", int |-> 0, list |-> <<>>]
IntAlignment(i) == [kind |-> "int", int |-> i, list |-> <<>>]
ListAlignment(l) == [kind |-> "list", int |-> 0, list |-> l]
TruthyAlignment(al) ==
    \/ al.kind = "int" /\ al.int # 0
    \/ al.kind = "list" /\ al.list # <<>>

\* No call of format_table has been made.
NoCall ==
    /\ rows = None
    /\ columns = None
    /\ headers = None
    /\ padding = 0
    /\ alignment = NoAlignment
    /\ wrap = FALSE
    /\ terminal_width = 0
    /\ natural_widths = <<>>
    /\ col_widths = <<>>
    /\ raised = "none"
    /\ returned = <<>>
    /\ n_calls = 0

\* ---------------------------------------------------------------- helpers

\* The daemon process (or thread) of the configuration exists.
is_running(c) == daemon[c] \in {"Starting", "Running", "Stopping"}

\* A remote call on the configuration's daemon gets through.
Reachable(c) == daemon[c] = "Running"

\* start_maestral_daemon_thread/_process answer Start.AlreadyRunning.
AnswersAlreadyRunning(c) == daemon[c] = "Running"

\* stop_maestral_daemon_process answers Stop.NotRunning.
AnswersNotRunning(c) == daemon[c] # "Running"

Count(s, x) == Cardinality({i \in DOMAIN s : s[i] = x})

Index(s, x) == IF x \in {s[i] : i \in DOMAIN s}
               THEN CHOOSE i \in DOMAIN s : s[i] = x /\ \A j \in 1..(i - 1) : s[j] # x
               ELSE 0

\* i before j in the log, both present.
Before(s, x, y) == Index(s, x) > 0 /\ Index(s, y) > Index(s, x)

\* _check_config: the name is an existing configuration, or the default one.
_check_config(value) == value \in configs \/ value = "maestral"

\* StopFeedback without its branch for Stop.NotRunning.
StopFeedback_NoNotRunning(r) ==
    IF r = "Ok" THEN <<"Stopping [OK]">>
    ELSE IF r = "Killed" THEN <<"Stopping [KILLED]">>
    ELSE <<>>

\* StopFeedback without its branch for Stop.Killed.
StopFeedback_NoKilled(r) ==
    IF r = "Ok" THEN <<"Stopping [OK]">>
    ELSE IF r = "NotRunning" THEN <<"Maestral daemon is not running.">>
    ELSE <<>>

\* The outcome line stop_daemon_with_cli_feedback echoes for a stop result.
StopFeedback(r) ==
    IF r = "Ok" THEN <<"Stopping [OK]">>
    ELSE IF r = "NotRunning" THEN <<"Maestral daemon is not running.">>
    ELSE IF r = "Killed" THEN <<"Stopping [KILLED]">>
    ELSE <<>>

StopLines == {"Stopping [OK]", "Maestral daemon is not running.", "Stopping [KILLED]"}

\* The outcome lines start echoes for a start result.
StartFeedback(r) ==
    IF r = "Ok" THEN <<"Starting [OK]">>
    ELSE IF r = "AlreadyRunning" THEN <<"Starting Already running.">>
    ELSE <<"Starting [FAILED]", "Please check logs for more information.">>

\* StartContinues without the return of the AlreadyRunning branch.
StartContinues_NoReturnWhenRunning(r) == r # "Failed"

\* StartContinues without the return of the failure branch.
StartContinues_NoReturnWhenFailed(r) == r # "AlreadyRunning"

\* start goes on to the post-start setup (it returns otherwise).
StartContinues(r) == r = "Ok"

\* RestartForward as ctx.invoke(start): start runs with its default parameters.
RestartForward_Invoke(a) == NoArgs

\* RestartForward losing the flags: only the configuration name is passed on.
RestartForward_NameOnly(a) == [NoArgs EXCEPT !.config_name = a.config_name]

\* restart's ctx.forward(start): start is called with restart's own parameters.
RestartForward(a) == a

\* AfterPendingLink with the link dialog left out.
AfterPendingLink_NoDialog(pending) == "start_pending_folder"

\* if m.pending_link: link_dialog(m)
AfterPendingLink(pending) == IF pending THEN "link_dialog" ELSE "start_pending_folder"

\* if m.pending_dropbox_folder: the folder is selected and created
AfterPendingFolder(pending) ==
    IF pending THEN "select_dbx_path" ELSE "start_log_to_stdout"

\* LinkLoopContinues that asks again after an invalid token only.
LinkLoopContinues_InvalidTokenOnly(r) == r \in {-1, 1}

\* link_dialog's loop condition.
LinkLoopContinues(r) == r # 0

\* StartJoins without the join.
StartJoins_Never(foreground) == FALSE

\* start waits for the daemon's thread before it returns.
StartJoins(foreground) == foreground

\* select_dbx_path_dialog's allow_merge, as each command passes it.
AllowMerge(o) == o \in {"start", "restart"}

\* Where the caller of select_dbx_path_dialog goes on with the path.
AfterSelectPath(o) ==
    IF o = "move_dir" THEN "session_enter" ELSE "start_create_dropbox_directory"

\* Fallback with no command asking for the fallback.
Fallback_Never(o) == FALSE

\* MaestralProxy(config_name, fallback=True)
Fallback(o) == o \in FallbackCommands

\* AfterUnlinkConfirm that unlinks without stopping the daemon.
AfterUnlinkConfirm_NoStop(yes) == IF yes THEN "unlink_call" ELSE "done"

\* if click.confirm(...): stop_daemon_with_cli_feedback(config_name); ...
AfterUnlinkConfirm(yes) == IF yes THEN "stop_daemon" ELSE "done"

\* Where the caller of stop_daemon_with_cli_feedback goes on.
AfterStop(o) ==
    IF o = "restart" THEN "start_daemon"
    ELSE IF o = "unlink" THEN "unlink_call"
    ELSE "done"

\* ------------------------------------------------------------ environment

\* The daemon of a configuration exits (it was stopped or killed from elsewhere).
daemon_exits(c) ==
    /\ daemon[c] = "Running"
    /\ daemon' = [daemon EXCEPT ![c] = "NotRunning"]
    /\ UNCHANGED <<configs, pending_link, pending_dropbox_folder, fs, op, args,
                   sargs, dropbox_path, pc, start_res, stop_res, polls, m, res,
                   link_log, path, idx, key, out, log, effects, result>>
    /\ UNCHANGED <<sync_activity, curses_loop, fatal, dialog, table, configs_locals>>

\* --------------------------------------------------------------- commands

\* A command is entered from the shell.
Enter(o, a, dp, at) ==
    /\ pc = "idle"
    /\ op' = o
    /\ args' = a
    /\ dropbox_path' = dp
    /\ pc' = at
    /\ UNCHANGED <<start_res, stop_res, polls, m, res, link_log, path, idx, key,
                   out, log, effects>>
    /\ UNCHANGED <<curses_loop, fatal, dialog, table, configs_locals>>
    /\ UNCHANGED world

\* The command's process ends: nothing of it is left but what it did to the
\* daemon, the configurations and the file system.
exit ==
    /\ pc = "done"
    /\ pc' = "idle"
    /\ op' = "none"
    /\ args' = NoArgs
    /\ sargs' = NoArgs
    /\ dropbox_path' = <<>>
    /\ start_res' = "none"
    /\ stop_res' = "none"
    /\ polls' = 0
    /\ m' = "none"
    /\ res' = -1
    /\ link_log' = <<>>
    /\ path' = "none"
    /\ idx' = 1
    /\ key' = "none"
    /\ out' = <<>>
    /\ log' = <<>>
    /\ effects' = {}
    /\ result' = "none"
    /\ snap' = IdleSnapshot
    /\ file_names' = <<>>
    /\ states' = <<>>
    /\ screen' = <<>>
    /\ prev' = <<>>
    /\ n_ticks' = 0
    /\ tick_log' = <<>>
    /\ slept' = 0
    /\ maestral_err_list' = <<>>
    /\ err_title' = <<>>
    /\ wrapped_msg' = <<>>
    /\ choice' = "none"
    /\ err' = FALSE
    /\ rows' = None
    /\ columns' = None
    /\ headers' = None
    /\ padding' = 0
    /\ alignment' = NoAlignment
    /\ wrap' = FALSE
    /\ terminal_width' = 0
    /\ natural_widths' = <<>>
    /\ col_widths' = <<>>
    /\ raised' = "none"
    /\ returned' = <<>>
    /\ n_calls' = 0
    /\ config_names' = <<>>
    /\ name_pos' = 1
    /\ names' = <<>>
    /\ emails' = <<>>
    /\ UNCHANGED world

\* A command given a configuration that _check_config rejects: ctx.fail.
Rejected(o, a, dp) ==
    /\ Enter(o, a, dp, "done")
    /\ sargs' = NoArgs
    /\ result' = "UsageError"

\* maestral start: any configuration name is accepted (config_option).
start(foreground, verbose, config_name) ==
    LET a == [foreground |-> foreground, verbose |-> verbose,
              config_name |-> config_name, flag |-> FALSE]
    IN /\ Enter("start", a, <<>>, "start_daemon")
       /\ sargs' = a
       /\ result' = "none"

\* maestral stop: the configuration must exist (existing_config_option).
stop(config_name) ==
    LET a == [NoArgs EXCEPT !.config_name = config_name]
    IN IF _check_config(config_name)
       THEN /\ Enter("stop", a, <<>>, "stop_daemon")
            /\ sargs' = NoArgs
            /\ result' = "none"
       ELSE Rejected("stop", a, <<>>)

\* maestral restart: the configuration must exist; stop comes first.
restart(foreground, verbose, config_name) ==
    LET a == [foreground |-> foreground, verbose |-> verbose,
              config_name |-> config_name, flag |-> FALSE]
    IN IF _check_config(config_name)
       THEN /\ Enter("restart", a, <<>>, "stop_daemon")
            /\ sargs' = NoArgs
            /\ result' = "none"
       ELSE Rejected("restart", a, <<>>)

\* ------------------------------------------- stop_daemon_with_cli_feedback

\* stop_maestral_daemon_process is called: it answers NotRunning at once, or
\* asks the daemon to shut down.
stop_daemon_request ==
    /\ pc = "stop_daemon"
    /\ log' = Append(log, "stop")
    /\ IF AnswersNotRunning(args.config_name)
       THEN /\ stop_res' = "NotRunning"
            /\ pc' = "stop_feedback"
            /\ UNCHANGED <<daemon, polls>>
       ELSE /\ daemon' = [daemon EXCEPT ![args.config_name] = "Stopping"]
            /\ polls' = 0
            /\ pc' = "stop_wait"
            /\ UNCHANGED stop_res
    /\ UNCHANGED <<configs, pending_link, pending_dropbox_folder, fs, op, args,
                   sargs, dropbox_path, start_res, m, res, link_log, path, idx,
                   key, out, effects, result>>
    /\ UNCHANGED <<sync_activity, curses_loop, fatal, dialog, table, configs_locals>>

\* One liveness poll of the grace period: the daemon has exited (Ok), or it is
\* polled again, or the grace period is over and it is killed (Killed).
stop_daemon_wait ==
    /\ pc = "stop_wait"
    /\ \E exited \in BOOLEAN :
         IF exited
         THEN /\ daemon' = [daemon EXCEPT ![args.config_name] = "NotRunning"]
              /\ stop_res' = "Ok"
              /\ pc' = "stop_feedback"
              /\ polls' = 0
         ELSE IF polls < GracePolls
         THEN /\ polls' = polls + 1
              /\ UNCHANGED <<daemon, stop_res, pc>>
         ELSE /\ daemon' = [daemon EXCEPT ![args.config_name] = "Killed"]
              /\ stop_res' = "Killed"
              /\ pc' = "stop_feedback"
              /\ polls' = 0
    /\ UNCHANGED <<configs, pending_link, pending_dropbox_folder, fs, op, args,
                   sargs, dropbox_path, start_res, m, res, link_log, path, idx,
                   key, out, log, effects, result>>
    /\ UNCHANGED <<sync_activity, curses_loop, fatal, dialog, table, configs_locals>>

\* The outcome is echoed and stop_daemon_with_cli_feedback returns: stop is
\* done, restart forwards its parameters to start.
stop_daemon_feedback ==
    /\ pc = "stop_feedback"
    /\ out' = out \o StopFeedback(stop_res)
    /\ log' = Append(log, "stop_returned")
    /\ pc' = AfterStop(op)
    /\ sargs' = IF op = "restart" THEN RestartForward(args) ELSE sargs
    /\ result' = IF AfterStop(op) = "done" THEN "Returned" ELSE result
    /\ UNCHANGED <<daemon, configs, pending_link, pending_dropbox_folder, fs, op,
                   args, dropbox_path, start_res, stop_res, polls, m, res,
                   link_log, path, idx, key, effects>>
    /\ UNCHANGED <<sync_activity, curses_loop, fatal, dialog, table, configs_locals>>

\* -------------------------------------------------------------------- start

\* A remote call failed in transport: Pyro5.errors.CommunicationError is raised.
\* start has no handler for it (catch_maestral_errors catches MaestralApiError
\* and the built-in ConnectionError only), and its proxy is not a scoped one.
start_raise_CommunicationError ==
    /\ pc' = "done"
    /\ result' = "CommunicationError"

\* click.Abort out of a prompt of start.
start_raise_Abort ==
    /\ pc' = "done"
    /\ result' = "Aborted"

\* start_maestral_daemon_thread or start_maestral_daemon_process is called: it
\* answers AlreadyRunning at once, or launches the daemon.
start_daemon ==
    /\ pc = "start_daemon"
    /\ log' = Append(log, "start")
    /\ LET c == sargs.config_name
       IN IF AnswersAlreadyRunning(c)
          THEN /\ start_res' = "AlreadyRunning"
               /\ pc' = "start_result"
               /\ UNCHANGED <<daemon, configs>>
          ELSE /\ daemon' = [daemon EXCEPT ![c] = "Starting"]
               /\ configs' = configs \cup {c}
               /\ pc' = "start_wait"
               /\ UNCHANGED start_res
    /\ UNCHANGED <<pending_link, pending_dropbox_folder, fs, op, args, sargs,
                   dropbox_path, stop_res, polls, m, res, link_log, path, idx,
                   key, out, effects, result>>
    /\ UNCHANGED <<sync_activity, curses_loop, fatal, dialog, table, configs_locals>>

\* The launch is confirmed alive (Ok) or has failed (the daemon is gone again).
start_daemon_wait ==
    /\ pc = "start_wait"
    /\ \E alive \in BOOLEAN :
         /\ daemon' = [daemon EXCEPT ![sargs.config_name] =
                          IF alive THEN "Running" ELSE "NotRunning"]
         /\ start_res' = IF alive THEN "Ok" ELSE "Failed"
    /\ pc' = "start_result"
    /\ UNCHANGED <<configs, pending_link, pending_dropbox_folder, fs, op, args,
                   sargs, dropbox_path, stop_res, polls, m, res, link_log, path,
                   idx, key, out, log, effects, result>>
    /\ UNCHANGED <<sync_activity, curses_loop, fatal, dialog, table, configs_locals>>

\* The result is echoed; start returns unless the daemon was started.
start_result ==
    /\ pc = "start_result"
    /\ out' = out \o StartFeedback(start_res)
    /\ IF StartContinues(start_res)
       THEN /\ pc' = "start_get_proxy"
            /\ UNCHANGED result
       ELSE /\ pc' = "done"
            /\ result' = "Returned"
    /\ UNCHANGED <<daemon, configs, pending_link, pending_dropbox_folder, fs, op,
                   args, sargs, dropbox_path, start_res, stop_res, polls, m, res,
                   link_log, path, idx, key, log, effects>>
    /\ UNCHANGED <<sync_activity, curses_loop, fatal, dialog, table, configs_locals>>

\* m = get_maestral_proxy(config_name): strict, raises when no daemon answers.
start_get_proxy ==
    /\ pc = "start_get_proxy"
    /\ IF Reachable(sargs.config_name)
       THEN /\ m' = "proxy"
            /\ log' = Append(log, "get_maestral_proxy")
            /\ pc' = "start_pending_link"
            /\ UNCHANGED result
       ELSE /\ start_raise_CommunicationError
            /\ UNCHANGED <<m, log>>
    /\ UNCHANGED <<daemon, configs, pending_link, pending_dropbox_folder, fs, op,
                   args, sargs, dropbox_path, start_res, stop_res, polls, res,
                   link_log, path, idx, key, out, effects>>
    /\ UNCHANGED <<sync_activity, curses_loop, fatal, dialog, table, configs_locals>>

\* if m.pending_link: link_dialog(m)
start_pending_link ==
    /\ pc = "start_pending_link"
    /\ IF Reachable(sargs.config_name)
       THEN /\ pc' = AfterPendingLink(pending_link[sargs.config_name])
            /\ UNCHANGED result
       ELSE start_raise_CommunicationError
    /\ UNCHANGED <<daemon, configs, pending_link, pending_dropbox_folder, fs, op,
                   args, sargs, dropbox_path, start_res, stop_res, polls, m, res,
                   link_log, path, idx, key, out, log, effects>>
    /\ UNCHANGED <<sync_activity, curses_loop, fatal, dialog, table, configs_locals>>

\* link_dialog: m.get_auth_url(), the instructions, res = -1.
link_dialog ==
    /\ pc = "link_dialog"
    /\ IF Reachable(sargs.config_name)
       THEN /\ res' = -1
            /\ log' = Append(log, "link_dialog")
            /\ pc' = "link_loop"
            /\ UNCHANGED result
       ELSE /\ start_raise_CommunicationError
            /\ UNCHANGED <<res, log>>
    /\ UNCHANGED <<daemon, configs, pending_link, pending_dropbox_folder, fs, op,
                   args, sargs, dropbox_path, start_res, stop_res, polls, m,
                   link_log, path, idx, key, out, effects>>
    /\ UNCHANGED <<sync_activity, curses_loop, fatal, dialog, table, configs_locals>>

\* One pass of link_dialog's while: the loop test, the prompt for a token (the
\* user may abort it), m.link(auth_code). A successful link ends pending_link.
link_dialog_loop ==
    /\ pc = "link_loop"
    /\ IF ~LinkLoopContinues(res)
       THEN /\ pc' = "start_pending_folder"
            /\ log' = Append(log, "link_dialog_returned")
            /\ UNCHANGED <<res, link_log, pending_link, result>>
       ELSE \E token \in BOOLEAN :
              IF ~token
              THEN /\ start_raise_Abort
                   /\ UNCHANGED <<res, link_log, pending_link, log>>
              ELSE IF ~Reachable(sargs.config_name)
              THEN /\ start_raise_CommunicationError
                   /\ UNCHANGED <<res, link_log, pending_link, log>>
              ELSE \E r \in 0..2 :
                     /\ r # 0 => Count(link_log, 1) + Count(link_log, 2) < MaxLinkTries
                     /\ res' = r
                     /\ link_log' = Append(link_log, r)
                     /\ pending_link' = IF r = 0
                           THEN [pending_link EXCEPT ![sargs.config_name] = FALSE]
                           ELSE pending_link
                     /\ UNCHANGED <<pc, log, result>>
    /\ UNCHANGED <<daemon, configs, pending_dropbox_folder, fs, op, args, sargs,
                   dropbox_path, start_res, stop_res, polls, m, path, idx, key,
                   out, effects>>
    /\ UNCHANGED <<sync_activity, curses_loop, fatal, dialog, table, configs_locals>>

\* The answers the dialog takes for a path that exists: replace, merge or
\* cancel when allow_merge, the yes or no of click.confirm when not.
Choices(allow_merge) ==
    IF allow_merge THEN {"replace", "merge", "cancel"} ELSE {"replace", "cancel"}

\* DialogReturns that also returns a path whose deletion failed.
DialogReturns_FailedDelete(ch, failed) == ch \in {"merge", "replace"}

\* The dialog returns an existing path after 'merge', and after 'replace' when
\* delete(dropbox_path) gave no error; it prompts again otherwise.
DialogReturns(ch, failed) == ch = "merge" \/ (ch = "replace" /\ ~failed)

\* if m.pending_dropbox_folder: select_dbx_path_dialog(...)
start_pending_dropbox_folder ==
    /\ pc = "start_pending_folder"
    /\ IF Reachable(sargs.config_name)
       THEN /\ pc' = AfterPendingFolder(pending_dropbox_folder[sargs.config_name])
            /\ UNCHANGED result
       ELSE start_raise_CommunicationError
    /\ UNCHANGED <<daemon, configs, pending_link, pending_dropbox_folder, fs, op,
                   args, sargs, dropbox_path, start_res, stop_res, polls, m, res,
                   link_log, path, idx, key, out, log, effects>>
    /\ UNCHANGED <<sync_activity, curses_loop, fatal, dialog, table, configs_locals>>

\* One pass of select_dbx_path_dialog's while: the prompt for a location (the
\* user may abort it); an existing directory is replaced (deleted), merged
\* with or refused, and the dialog returns the path or asks again.
select_dbx_path_dialog ==
    /\ pc = "select_dbx_path"
    /\ \E p \in DirPaths \cup {"abort"} :
         IF p = "abort"
         THEN /\ start_raise_Abort
              /\ UNCHANGED <<fs, path, log, choice, err>>
         ELSE IF p \notin fs
         THEN /\ path' = p
              /\ log' = Append(log, "select_dbx_path_dialog_returned")
              /\ pc' = AfterSelectPath(op)
              /\ UNCHANGED <<fs, result, choice, err>>
         ELSE \E ch \in Choices(AllowMerge(op)), failed \in BOOLEAN :
                /\ choice' = ch
                /\ err' = (ch = "replace" /\ failed)
                /\ fs' = IF ch = "replace" /\ ~failed THEN fs \ {p} ELSE fs
                /\ IF DialogReturns(ch, failed)
                   THEN /\ path' = p
                        /\ log' = Append(log, "select_dbx_path_dialog_returned")
                        /\ pc' = AfterSelectPath(op)
                        /\ UNCHANGED result
                   ELSE UNCHANGED <<path, log, pc, result>>
    /\ UNCHANGED <<daemon, configs, pending_link, pending_dropbox_folder, op, args,
                   sargs, dropbox_path, start_res, stop_res, polls, m, res,
                   link_log, idx, key, out, effects>>
    /\ UNCHANGED <<sync_activity, curses_loop, fatal, table, configs_locals>>

\* m.create_dropbox_directory(path): the folder exists and is no longer pending.
start_create_dropbox_directory ==
    /\ pc = "start_create_dropbox_directory"
    /\ IF Reachable(sargs.config_name)
       THEN /\ fs' = fs \cup {path}
            /\ pending_dropbox_folder' =
                 [pending_dropbox_folder EXCEPT ![sargs.config_name] = FALSE]
            /\ log' = Append(log, "create_dropbox_directory")
            /\ effects' = effects \cup {"create_dropbox_directory"}
            /\ pc' = "start_exclude_folders"
            /\ UNCHANGED result
       ELSE /\ start_raise_CommunicationError
            /\ UNCHANGED <<fs, pending_dropbox_folder, log, effects>>
    /\ UNCHANGED <<daemon, configs, pending_link, op, args, sargs, dropbox_path,
                   start_res, stop_res, polls, m, res, link_log, path, idx, key,
                   out>>
    /\ UNCHANGED <<sync_activity, curses_loop, fatal, dialog, table, configs_locals>>

\* The question whether to exclude folders (the user may abort it) and, on yes,
\* m.list_folder('/'), one question per folder, m.set_excluded_items(...).
start_exclude_folders ==
    /\ pc = "start_exclude_folders"
    /\ \E answer \in {"yes", "no", "abort"} :
         IF answer = "abort"
         THEN /\ start_raise_Abort
              /\ UNCHANGED <<log, effects>>
         ELSE IF answer = "no"
         THEN /\ pc' = "start_log_to_stdout"
              /\ UNCHANGED <<log, effects, result>>
         ELSE IF Reachable(sargs.config_name)
         THEN /\ log' = log \o <<"list_folder", "set_excluded_items">>
              /\ effects' = effects \cup {"set_excluded_items"}
              /\ pc' = "start_log_to_stdout"
              /\ UNCHANGED result
         ELSE /\ start_raise_CommunicationError
              /\ UNCHANGED <<log, effects>>
    /\ UNCHANGED <<daemon, configs, pending_link, pending_dropbox_folder, fs, op,
                   args, sargs, dropbox_path, start_res, stop_res, polls, m, res,
                   link_log, path, idx, key, out>>
    /\ UNCHANGED <<sync_activity, curses_loop, fatal, dialog, table, configs_locals>>

\* m.log_to_stdout = verbose; m.start_sync()
start_sync ==
    /\ pc = "start_log_to_stdout"
    /\ IF Reachable(sargs.config_name)
       THEN /\ log' = log \o <<"log_to_stdout", "start_sync">>
            /\ effects' = effects \cup {"start_sync"}
            /\ pc' = "start_join"
            /\ UNCHANGED result
       ELSE /\ start_raise_CommunicationError
            /\ UNCHANGED <<log, effects>>
    /\ UNCHANGED <<daemon, configs, pending_link, pending_dropbox_folder, fs, op,
                   args, sargs, dropbox_path, start_res, stop_res, polls, m, res,
                   link_log, path, idx, key, out>>
    /\ UNCHANGED <<sync_activity, curses_loop, fatal, dialog, table, configs_locals>>

\* if foreground: threads[config_name].join(); then start returns. join returns
\* when the daemon's thread has exited.
start_join ==
    /\ pc = "start_join"
    /\ IF StartJoins(sargs.foreground)
       THEN /\ ~is_running(sargs.config_name)
            /\ log' = Append(log, "join")
       ELSE UNCHANGED log
    /\ pc' = "done"
    /\ result' = "Returned"
    /\ UNCHANGED <<daemon, configs, pending_link, pending_dropbox_folder, fs, op,
                   args, sargs, dropbox_path, start_res, stop_res, polls, m, res,
                   link_log, path, idx, key, out, effects>>
    /\ UNCHANGED <<sync_activity, curses_loop, fatal, dialog, table, configs_locals>>

\* -------------------------------------------------------------- format_table

Max(S) == CHOOSE x \in S : \A y \in S : y <= x

\* str.ljust: blanks are added on the right up to the width.
ljust(s, width) ==
    IF Len(s) >= width THEN s ELSE s \o [i \in 1..(width - Len(s)) |-> " "]

RECURSIVE Sum(_)
Sum(s) == IF s = <<>> THEN 0 ELSE Head(s) + Sum(Tail(s))

Min(S) == CHOOSE x \in S : \A y \in S : x <= y

Blanks(k) == [i \in 1..k |-> " "]

\* '\n'.join(lines)
RECURSIVE Join(_)
Join(ls) ==
    IF ls = <<>> THEN <<>>
    ELSE IF Len(ls) = 1 THEN ls[1]
    ELSE ls[1] \o <<"\n">> \o Join(Tail(ls))

\* str.rjust and str.center (CPython pads the left with
\* marg / 2 + (marg & width & 1) blanks).
rjust(s, width) == IF Len(s) >= width THEN s ELSE Blanks(width - Len(s)) \o s
center(s, width) ==
    LET marg == width - Len(s)
        left == (marg \div 2) + (IF marg % 2 = 1 /\ width % 2 = 1 THEN 1 ELSE 0)
    IN IF marg <= 0 THEN s ELSE Blanks(left) \o s \o Blanks(marg - left)

\* round(num / den) of Python 3 for den > 0: to the nearest integer, a tie to
\* the even one.
round(num, den) ==
    LET q == num \div den
        r == num % den
    IN IF 2 * r < den THEN q
       ELSE IF 2 * r > den THEN q + 1
       ELSE IF q % 2 = 0 THEN q ELSE q + 1

\* list(map(list, zip(*ll))): zip stops at the shortest list.
_transpose(ll) ==
    IF ll = <<>> THEN <<>>
    ELSE [j \in 1..Min({Len(ll[i]) : i \in DOMAIN ll}) |->
            [i \in DOMAIN ll |-> ll[i][j]]]

\* ''.join(chunks)
RECURSIVE Concat(_)
Concat(ss) == IF ss = <<>> THEN <<>> ELSE Head(ss) \o Concat(Tail(ss))

\* textwrap's split of a text into chunks: the runs of blanks and the words
\* between them.
RECURSIVE _split(_)
_split(text) ==
    IF text = <<>> THEN <<>>
    ELSE LET same(i) == (text[i] = " ") = (text[1] = " ")
             k == Max({i \in DOMAIN text : \A j \in 1..i : same(j)})
         IN <<SubSeq(text, 1, k)>> \o _split(SubSeq(text, k + 1, Len(text)))

\* chunk.strip() == ''
Blank(chunk) == \A i \in DOMAIN chunk : chunk[i] = " "

\* textwrap.TextWrapper._wrap_chunks for width > 0, with the defaults
\* drop_whitespace and break_long_words: a line takes the chunks that fit; a
\* word longer than the width is cut at the room the line has left; the
\* blanks at the start of a line after the first and at the end of a line
\* are dropped.
RECURSIVE _wrap_chunks(_, _, _)
_wrap_chunks(chunks, width, lines) ==
    IF chunks = <<>> THEN lines
    ELSE LET c0 == IF Blank(Head(chunks)) /\ lines # <<>> THEN Tail(chunks)
                   ELSE chunks
             len(k) == Sum([i \in 1..k |-> Len(c0[i])])
             k == Max({i \in 0..Len(c0) : len(i) <= width})
             cur == SubSeq(c0, 1, k)
             rest == SubSeq(c0, k + 1, Len(c0))
             long == rest # <<>> /\ Len(Head(rest)) > width
             space_left == width - len(k)
             cur2 == IF long THEN Append(cur, SubSeq(Head(rest), 1, space_left))
                     ELSE cur
             rest2 == IF long
                      THEN <<SubSeq(Head(rest), space_left + 1, Len(Head(rest)))>>
                           \o Tail(rest)
                      ELSE rest
             cur3 == IF cur2 # <<>> /\ Blank(cur2[Len(cur2)])
                     THEN SubSeq(cur2, 1, Len(cur2) - 1) ELSE cur2
         IN _wrap_chunks(rest2, width,
                         IF cur3 # <<>> THEN Append(lines, Concat(cur3)) ELSE lines)

\* textwrap.wrap(text, width=width) for width > 0: the lines of the text.
textwrap_wrap(text, width) == _wrap_chunks(_split(text), width, <<>>)

\* textwrap.fill(text, width=width)
textwrap_fill(text, width) == Join(textwrap_wrap(text, width))

\* n = 3
N == 3

\* for i, col in enumerate(columns): col.insert(0, headers[i]), as far as
\* there are headers.
InsertHeaders(cols, hdrs) ==
    [i \in DOMAIN cols |-> IF i <= Len(hdrs) THEN <<hdrs[i]>> \o cols[i] ELSE cols[i]]

\* The alignment of every column: left when 'not alignment', the int for
\* every column, or the list given.
Alignments(al, ncols) ==
    IF ~TruthyAlignment(al) THEN [i \in 1..ncols |-> LEFT]
    ELSE IF al.kind = "int" THEN [i \in 1..ncols |-> al.int]
    ELSE al.list

\* col_widths = tuple(max(len(cell) for cell in col) for col in columns)
NaturalWidths(cols) ==
    [i \in DOMAIN cols |-> Max({Len(cols[i][j]) : j \in DOMAIN cols[i]})]

\* available_width that leaves the padding out.
available_width_NoPadding(tw, pad, ncols) == tw

\* available_width = terminal_width - padding * len(columns)
available_width(tw, pad, ncols) == tw - pad * ncols

\* sum_widths = sum(w**n for w in col_widths)
sum_widths(ws) == Sum([i \in DOMAIN ws |-> ws[i] ^ N])

\* subtract = max([sum(col_widths) - available_width, 0])
subtract(ws, available) == Max({Sum(ws) - available, 0})

\* Shrunk in proportion to the width itself.
Shrunk_Linear(w, sub, sumw) == round(w * sumw - sub * w, sumw)

\* round(w - subtract * w**n / sum_widths), sum_widths > 0
Shrunk(w, sub, sumw) == round(w * sumw - sub * (w ^ N), sumw)

\* Justify that leaves the cell as it is.
Justify_NoFill(s, width, align) == s

\* cell[i].ljust(width), .rjust(width) or .center(width)
Justify(s, width, align) ==
    CASE align = LEFT -> ljust(s, width)
      [] align = RIGHT -> rjust(s, width)
      [] align = CENTER -> center(s, width)
      [] OTHER -> s

\* The lines of one row of wrapped cells: every cell is filled up to the
\* row's n_lines, and a line is the cells' i-th lines, each justified to the
\* width of its column and followed by the padding.
RowLines(row, widths, aligns, pad) ==
    LET n_lines == Max({Len(row[c]) : c \in DOMAIN row})
        piece(c, i) == IF i <= Len(row[c]) THEN row[c][i] ELSE <<>>
        zipped == Min({Len(row), Len(widths), Len(aligns)})
    IN [i \in 1..n_lines |->
          Concat([c \in 1..zipped |->
                    Justify(piece(c, i), widths[c], aligns[c]) \o Blanks(pad)])]

\* How a call ends: the exception it raised ("none" when it returned), the
\* string it returned, the caller's columns after it, and its col_widths.
Raise(exc, after, natural, widths) ==
    [raised |-> exc, returned |-> <<>>, columns |-> after,
     natural_widths |-> natural, col_widths |-> widths]
Return(text, after, natural, widths) ==
    [raised |-> "none", returned |-> text, columns |-> after,
     natural_widths |-> natural, col_widths |-> widths]

\* format_table(rows, columns, headers, padding, alignment, wrap) on a
\* terminal of the given width.
format_table_result(rs, cs, hs, pad, al, wr, tw) ==
    IF Truthy(rs) /\ Truthy(cs) THEN Raise("ValueError", cs, <<>>, <<>>)
    ELSE IF ~Truthy(cs) /\ ~Truthy(rs) THEN Raise("ValueError", cs, <<>>, <<>>)
    ELSE
    LET given == Truthy(cs)
        cols0 == IF given THEN cs.val ELSE _transpose(rs.val)
        cols == IF Truthy(hs) THEN InsertHeaders(cols0, hs.val) ELSE cols0
        after == IF given THEN Some(cols) ELSE cs
        ncols == Len(cols)
    IN
    IF Truthy(hs) /\ Len(hs.val) < ncols THEN Raise("IndexError", after, <<>>, <<>>)
    ELSE IF \A i \in DOMAIN cols : cols[i] = <<>> THEN Return(<<>>, after, <<>>, <<>>)
    ELSE IF TruthyAlignment(al) /\ al.kind = "list" /\ Len(al.list) # ncols
    THEN Raise("ValueError", after, <<>>, <<>>)
    ELSE IF \E i \in DOMAIN cols : cols[i] = <<>>
    THEN Raise("ValueError", after, <<>>, <<>>)
    ELSE
    LET aligns == Alignments(al, ncols)
        natural == NaturalWidths(cols)
        sumw == sum_widths(natural)
        sub == subtract(natural, available_width(tw, pad, ncols))
    IN
    IF wr /\ sumw = 0 THEN Raise("ZeroDivisionError", after, natural, <<>>)
    ELSE
    LET widths == IF wr THEN [i \in DOMAIN natural |-> Shrunk(natural[i], sub, sumw)]
                  ELSE natural
    IN
    IF \E i \in DOMAIN widths : widths[i] <= 0 THEN Raise("ValueError", after, natural, widths)
    ELSE
    LET wrapped_columns ==
            [i \in DOMAIN cols |->
               [j \in DOMAIN cols[i] |-> textwrap_wrap(cols[i][j], widths[i])]]
        wrapped_rows == _transpose(wrapped_columns)
        lines == Concat([r \in DOMAIN wrapped_rows |->
                           RowLines(wrapped_rows[r], widths, aligns, pad)])
    IN
    IF lines # <<>> /\ \E i \in DOMAIN aligns : aligns[i] \notin {LEFT, CENTER, RIGHT}
    THEN Raise("ValueError", after, natural, widths)
    ELSE Return(Join(lines), after, natural, widths)

\* The cells of the tables: words of every length, and two words.
Word(k) == [i \in 1..k |-> "a"]
Cells == {Word(k) : k \in 0..MaxCellLen} \cup {<<"a", " ", "b">>}

\* The columns [["alice", "bob"], ["30", "7"]].
ScenarioColumns ==
    << << <<"a", "l", "i", "c", "e">>, <<"b", "o", "b">> >>,
       << <<"3", "0">>, <<"7">> >> >>

\* Tables of up to two lists of at most one cell each (as rows or as
\* columns), and the scenario's.
Lists == {<<>>} \cup {<<c>> : c \in Cells}
Tables ==
    {<<>>} \cup {<<l>> : l \in Lists} \cup {<<l1, l2>> : l1 \in Lists, l2 \in Lists}
    \cup {ScenarioColumns}

\* rows and columns as a caller may give them: neither, one of them, or both.
DataArgs ==
    {<<None, None>>}
    \cup {<<Some(t), None>> : t \in Tables}
    \cup {<<None, Some(t)>> : t \in Tables}
    \cup {<<Some(t1), Some(t2)>> : t1 \in {<<>>, << <<Word(1)>> >>},
                                   t2 \in {<<>>, << <<Word(2)>> >>}}

HeaderArgs == {None, Some(<<Word(1), Word(2)>>)}

\* alignment: not given, an int, or a list: empty, of one or two tags, or
\* with a value that is no tag.
AlignmentArgs ==
    {NoAlignment, IntAlignment(RIGHT), IntAlignment(3), ListAlignment(<<>>),
     ListAlignment(<<LEFT>>), ListAlignment(<<RIGHT, CENTER>>),
     ListAlignment(<<LEFT, 3>>)}

\* The narrow terminals and the usual one of 80 columns.
TerminalWidths == (1..MaxTerminalWidth) \cup {80}

\* A call of format_table with the caller's lists: the outcome of the call,
\* and the columns as the header insertion has left them.
format_table ==
    /\ n_calls < MaxCalls
    /\ LET r == format_table_result(rows, columns, headers, padding, alignment,
                                    wrap, terminal_width)
       IN /\ columns' = r.columns
          /\ natural_widths' = r.natural_widths
          /\ col_widths' = r.col_widths
          /\ raised' = r.raised
          /\ returned' = r.returned
    /\ n_calls' = n_calls + 1
    /\ UNCHANGED <<rows, headers, padding, alignment, wrap, terminal_width>>
    /\ UNCHANGED <<daemon, configs, pending_link, pending_dropbox_folder, fs, op,
                   args, sargs, dropbox_path, pc, start_res, stop_res, polls, m,
                   res, link_log, path, idx, key, out, log, effects, result>>
    /\ UNCHANGED <<sync_activity, curses_loop, fatal, dialog, configs_locals>>

\* --------------------------------------------------------- session commands

\* NormPath with the empty path left as it is.
NormPath_EmptyKept(p) == IF p = <<>> \/ Head(p) = "/" THEN p ELSE <<"/">> \o p

\* dropbox_path with a leading '/' added when it has none.
NormPath(p) == IF p # <<>> /\ Head(p) = "/" THEN p ELSE <<"/">> \o p

\* The remote calls of the body of each command that holds a strict session
\* (with MaestralProxy(config_name) as m), in order. "confirm" is the question
\* rebuild_index asks (abort=True), "curses_loop" the entry of activity's loop.
BodyCalls(o) ==
    CASE o = "pause" -> <<"pause_sync">>
      [] o = "resume" -> <<"fatal_errors", "resume_sync">>
      [] o = "status" -> <<"sync_errors", "get_state", "status", "running",
                           "fatal_errors", "sync_errors">>
      [] o = "file_status" -> <<"fatal_errors", "get_file_status">>
      [] o = "activity" -> <<"fatal_errors", "curses_loop">>
      [] o = "rebuild_index" -> <<"confirm", "rebuild_index">>
      [] o = "excluded_remove" -> <<"fatal_errors", "include_item">>
      [] o = "notify_snooze" -> <<"notification_snooze">>
      [] o = "ls" -> IF args.flag THEN <<"list_folder", "excluded_status">>
                     ELSE <<"list_folder">>
      [] o = "link" -> <<"pending_link", "get_auth_url", "prompt", "link">>
      [] o = "move_dir" -> <<"move_dropbox_directory">>
      [] o = "revs" -> <<"list_revisions">>
      [] o = "restore" -> <<"restore">>
      [] o = "recent_changes" -> <<"get_state">>
      [] o = "analytics" -> IF args.flag THEN <<"set_analytics">>
                            ELSE <<"get_analytics">>
      [] o = "account_info" -> <<"get_state", "get_state", "get_state", "get_conf">>
      [] o = "excluded_list" -> <<"excluded_items">>
      [] o = "excluded_add" -> <<"fatal_errors", "exclude_item">>
      [] o = "log_level" -> IF args.flag THEN <<"set_log_level">>
                            ELSE <<"get_log_level">>
      [] o = "notify_level" -> IF args.flag THEN <<"set_notification_level">>
                               ELSE <<"get_notification_level">>
      [] OTHER -> <<>>

\* The remote calls that change the daemon.
Mutating ==
    {"pause_sync", "resume_sync", "rebuild_index", "include_item",
     "notification_snooze", "move_dropbox_directory", "restore", "set_analytics",
     "exclude_item", "set_log_level", "set_notification_level", "link"}

\* Fatal errors as the daemon reports them: a title and a message.
RevokedError ==
    [title |-> <<"A", "u", "t", "h">>,
     message |-> <<"n", "o", " ", "a", "c", "c", "e", "s", "s">>]
NoFolderError ==
    [title |-> <<"P", "a", "t", "h">>,
     message |-> <<"f", "o", "l", "d", "e", "r", " ", "g", "o", "n", "e">>]

\* What m.fatal_errors may be.
FatalErrorLists ==
    {<<>>, <<RevokedError>>, <<RevokedError, NoFolderError>>,
     <<NoFolderError, RevokedError>>}

\* Terminal widths the message is wrapped to: a narrow terminal and the
\* usual one.
FatalWidths == {4, 80}

\* check_for_fatal_errors: True when the list has an error.
check_for_fatal_errors(errs) == Len(errs) > 0

\* ReturnsOnFatal with excluded add going on after a fatal error.
ReturnsOnFatal_NotExcludedAdd(o) ==
    o \in {"resume", "file_status", "activity", "excluded_remove"}

\* The command returns when check_for_fatal_errors(m) is true.
ReturnsOnFatal(o) ==
    o \in {"resume", "file_status", "activity", "excluded_remove", "excluded_add"}

\* What the command echoes when its body has run to its end.
SuccessLines(o) ==
    CASE o = "pause" -> <<"Syncing paused.">>
      [] o = "resume" -> <<"Syncing resumed.">>
      [] o = "status" -> <<"status">>
      [] o = "file_status" -> <<"file status">>
      [] o = "excluded_remove" -> <<"Included. Now downloading...">>
      [] o = "notify_snooze" -> <<"Notifications snoozed or enabled.">>
      [] o = "ls" -> <<"entries">>
      [] o = "move_dir" -> <<"Dropbox folder moved.">>
      [] o = "revs" -> <<"revisions">>
      [] o = "restore" -> <<"Restored.">>
      [] o = "recent_changes" -> <<"recent changes">>
      [] o = "analytics" -> <<"automatic error reports">>
      [] o = "account_info" -> <<"account info">>
      [] o = "excluded_list" -> <<"excluded items">>
      [] o = "excluded_add" -> <<"Excluded.">>
      [] o = "log_level" -> <<"log level">>
      [] o = "notify_level" -> <<"notification level">>
      [] OTHER -> <<>>

\* CommErrorLines with activity's handler echoing nothing.
CommErrorLines_ActivitySilent(o) ==
    CASE o \in {"pause", "resume", "status", "rebuild_index", "notify_snooze"} ->
           <<"Maestral daemon is not running.">>
      [] o = "file_status" -> <<"unwatched">>
      [] o = "excluded_remove" ->
           <<"Error: Maestral daemon must be running to download folders.">>
      [] OTHER -> <<>>

\* The command's handler of Pyro5.errors.CommunicationError: what it echoes.
CommErrorLines(o) ==
    CASE o \in {"pause", "resume", "status", "activity", "rebuild_index",
                "notify_snooze"} -> <<"Maestral daemon is not running.">>
      [] o = "file_status" -> <<"unwatched">>
      [] o = "excluded_remove" ->
           <<"Error: Maestral daemon must be running to download folders.">>
      [] OTHER -> <<>>

\* CommErrorResult with pause lacking its try / except.
CommErrorResult_PauseUnhandled(o) ==
    CASE o \in {"resume", "status", "file_status", "activity", "rebuild_index",
                "notify_snooze"} -> "Returned"
      [] o = "excluded_remove" -> "ClickException"
      [] OTHER -> "CommunicationError"

\* The command's handler of Pyro5.errors.CommunicationError: how the command
\* ends. Without a handler the exception leaves the command.
CommErrorResult(o) ==
    CASE o \in {"pause", "resume", "status", "file_status", "activity",
                "rebuild_index", "notify_snooze"} -> "Returned"
      [] o = "excluded_remove" -> "ClickException"
      [] OTHER -> "CommunicationError"

UnreachableLines ==
    {"Maestral daemon is not running.", "unwatched",
     "Error: Maestral daemon must be running to download folders."}

\* CommunicationError inside "with MaestralProxy(...)": the session is released
\* and the command's handler runs.
session_raise_CommunicationError ==
    /\ pc' = "done"
    /\ m' = "none"
    /\ out' = out \o CommErrorLines(op)
    /\ result' = CommErrorResult(op)

\* The command leaves its "with MaestralProxy(...)" block and ends.
session_return(lines) ==
    /\ pc' = "done"
    /\ m' = "none"
    /\ out' = out \o lines
    /\ result' = "Returned"

\* A command that holds a strict session; the configuration must exist.
session_command(o, config_name, dp) ==
    LET a == [NoArgs EXCEPT !.config_name = config_name]
    IN IF _check_config(config_name)
       THEN /\ Enter(o, a, dp, IF o = "excluded_remove"
                                THEN "excluded_path" ELSE "session_enter")
            /\ sargs' = NoArgs
            /\ result' = "none"
       ELSE Rejected(o, a, dp)

\* A command that enters its session with fallback=True; link takes any
\* configuration name (config_option), the others an existing one.
fallback_command(o, config_name, flag, dp) ==
    LET a == [NoArgs EXCEPT !.config_name = config_name, !.flag = flag]
    IN IF o = "link" \/ _check_config(config_name)
       THEN /\ Enter(o, a, dp, IF o = "excluded_add" THEN "excluded_path"
                                ELSE IF o = "move_dir" THEN "move_dir_path"
                                ELSE "session_enter")
            /\ sargs' = NoArgs
            /\ result' = "none"
       ELSE Rejected(o, a, dp)

\* move-dir: new_path = new_path or select_dbx_path_dialog(config_name)
move_dir_path ==
    /\ pc = "move_dir_path"
    /\ IF args.flag
       THEN /\ \E p \in DirPaths : path' = p
            /\ pc' = "session_enter"
       ELSE /\ pc' = "select_dbx_path"
            /\ UNCHANGED path
    /\ UNCHANGED <<daemon, configs, pending_link, pending_dropbox_folder, fs, op,
                   args, sargs, dropbox_path, start_res, stop_res, polls, m, res,
                   link_log, idx, key, out, log, effects, result>>
    /\ UNCHANGED <<sync_activity, curses_loop, fatal, dialog, table, configs_locals>>

\* excluded add and excluded remove: the leading '/' is added; the root is
\* refused before any session is asked for.
excluded_remove_path ==
    /\ pc = "excluded_path"
    /\ dropbox_path' = NormPath(dropbox_path)
    /\ IF NormPath(dropbox_path) = <<"/">>
       THEN /\ pc' = "done"
            /\ out' = Append(out, IF op = "excluded_add"
                                   THEN "Cannot exclude the root directory."
                                   ELSE "The root directory is always included.")
            /\ result' = "Returned"
       ELSE /\ pc' = "session_enter"
            /\ UNCHANGED <<out, result>>
    /\ UNCHANGED <<daemon, configs, pending_link, pending_dropbox_folder, fs, op,
                   args, sargs, start_res, stop_res, polls, m, res, link_log,
                   path, idx, key, log, effects>>
    /\ UNCHANGED <<sync_activity, curses_loop, fatal, dialog, table, configs_locals>>

\* with MaestralProxy(config_name) as m: the session is a proxy of the daemon
\* that answers; when none answers it is an instance in this process if the
\* command asked for the fallback, and CommunicationError is raised if not.
\* No daemon is started.
session_enter ==
    /\ pc = "session_enter"
    /\ IF Reachable(args.config_name)
       THEN /\ m' = "proxy"
            /\ pc' = "session_body"
            /\ UNCHANGED <<out, result, log>>
       ELSE IF Fallback(op)
       THEN /\ m' = "in_process"
            /\ pc' = "session_body"
            /\ log' = Append(log, "fallback")
            /\ UNCHANGED <<out, result>>
       ELSE /\ session_raise_CommunicationError
            /\ log' = Append(log, "unreachable")
    /\ UNCHANGED <<daemon, configs, pending_link, pending_dropbox_folder, fs, op,
                   args, sargs, dropbox_path, start_res, stop_res, polls, res,
                   link_log, path, idx, key, effects>>
    /\ UNCHANGED <<sync_activity, curses_loop, fatal, dialog, table, configs_locals>>

\* The next call of the command's body, and the end of the body after the last.
session_call ==
    /\ pc = "session_body"
    /\ idx <= Len(BodyCalls(op)) => BodyCalls(op)[idx] # "link"
    /\ IF idx > Len(BodyCalls(op))
       THEN /\ session_return(SuccessLines(op))
            /\ UNCHANGED <<idx, effects>>
       ELSE LET call == BodyCalls(op)[idx]
            IN IF call = "confirm"
               THEN \E yes \in BOOLEAN :
                      IF yes
                      THEN /\ idx' = idx + 1
                           /\ UNCHANGED <<pc, m, out, result, effects>>
                      ELSE /\ pc' = "done"
                           /\ m' = "none"
                           /\ result' = "Aborted"
                           /\ UNCHANGED <<idx, out, effects>>
               ELSE IF call = "prompt"
               THEN \E token \in BOOLEAN :
                      IF token
                      THEN /\ idx' = idx + 1
                           /\ UNCHANGED <<pc, m, out, result, effects>>
                      ELSE /\ pc' = "done"
                           /\ m' = "none"
                           /\ result' = "Aborted"
                           /\ UNCHANGED <<idx, out, effects>>
               ELSE IF call = "curses_loop"
               THEN /\ pc' = "activity_pull"
                    /\ UNCHANGED <<idx, m, out, result, effects>>
               ELSE IF m = "proxy" /\ ~Reachable(args.config_name)
               THEN /\ session_raise_CommunicationError
                    /\ UNCHANGED <<idx, effects>>
               ELSE IF call = "pending_link"
               THEN IF pending_link[args.config_name] \/ args.flag
                    THEN /\ idx' = idx + 1
                         /\ UNCHANGED <<pc, m, out, result, effects>>
                    ELSE /\ session_return(<<"Maestral is already linked.">>)
                         /\ UNCHANGED <<idx, effects>>
               ELSE IF call = "fatal_errors"
               THEN \E errs \in FatalErrorLists, width \in FatalWidths :
                      LET fatal_error == check_for_fatal_errors(errs)
                      IN /\ maestral_err_list' = errs
                         /\ err_title' = IF fatal_error THEN errs[1].title ELSE <<>>
                         /\ wrapped_msg' = IF fatal_error
                                           THEN textwrap_fill(errs[1].message, width)
                                           ELSE <<>>
                         /\ IF fatal_error /\ ReturnsOnFatal(op)
                            THEN /\ session_return(<<"fatal error">>)
                                 /\ UNCHANGED <<idx, effects>>
                            ELSE /\ idx' = idx + 1
                                 /\ out' = IF fatal_error
                                           THEN Append(out, "fatal error")
                                           ELSE out
                                 /\ UNCHANGED <<pc, m, result, effects>>
               ELSE /\ idx' = idx + 1
                    /\ effects' = IF call \in Mutating
                                  THEN effects \cup {call} ELSE effects
                    /\ UNCHANGED <<pc, m, out, result>>
    /\ IF /\ idx <= Len(BodyCalls(op))
          /\ BodyCalls(op)[idx] = "fatal_errors"
          /\ ~(m = "proxy" /\ ~Reachable(args.config_name))
       THEN TRUE
       ELSE UNCHANGED fatal
    /\ UNCHANGED <<daemon, configs, pending_link, pending_dropbox_folder, fs, op,
                   args, sargs, dropbox_path, start_res, stop_res, polls, res,
                   link_log, path, key, log>>
    /\ UNCHANGED <<sync_activity, curses_loop, dialog, table, configs_locals>>

\* link: res = m.link(auth_code) in link_dialog's loop, which asks for a token
\* again unless the link succeeded. A successful link ends pending_link.
session_link ==
    /\ pc = "session_body"
    /\ idx <= Len(BodyCalls(op))
    /\ BodyCalls(op)[idx] = "link"
    /\ IF m = "proxy" /\ ~Reachable(args.config_name)
       THEN /\ session_raise_CommunicationError
            /\ UNCHANGED <<idx, res, link_log, pending_link, effects>>
       ELSE \E r \in 0..2 :
              /\ r # 0 => Count(link_log, 1) + Count(link_log, 2) < MaxLinkTries
              /\ res' = r
              /\ link_log' = Append(link_log, r)
              /\ pending_link' = IF r = 0
                    THEN [pending_link EXCEPT ![args.config_name] = FALSE]
                    ELSE pending_link
              /\ effects' = IF r = 0 THEN effects \cup {"link"} ELSE effects
              /\ idx' = IF LinkLoopContinues(r) THEN idx - 1 ELSE idx + 1
              /\ UNCHANGED <<pc, m, out, result>>
    /\ UNCHANGED <<daemon, configs, pending_dropbox_folder, fs, op, args, sargs,
                   dropbox_path, start_res, stop_res, polls, path, key, log>>
    /\ UNCHANGED <<sync_activity, curses_loop, fatal, dialog, table, configs_locals>>

\* -------------------------------------------------------------------- unlink

\* maestral unlink: the configuration must exist.
unlink(config_name) ==
    LET a == [NoArgs EXCEPT !.config_name = config_name]
    IN IF _check_config(config_name)
       THEN /\ Enter("unlink", a, <<>>, "unlink_confirm")
            /\ sargs' = NoArgs
            /\ result' = "none"
       ELSE Rejected("unlink", a, <<>>)

\* if click.confirm('Are you sure you want unlink your account?'):
unlink_confirm ==
    /\ pc = "unlink_confirm"
    /\ \E answer \in {"yes", "no", "abort"} :
         IF answer = "abort"
         THEN /\ pc' = "done"
              /\ result' = "Aborted"
         ELSE /\ pc' = AfterUnlinkConfirm(answer = "yes")
              /\ result' = IF AfterUnlinkConfirm(answer = "yes") = "done"
                           THEN "Returned" ELSE result
    /\ \/ pc' = "stop_daemon" /\ log' = Append(log, "confirmed")
       \/ pc' = "unlink_call" /\ log' = Append(log, "confirmed")
       \/ pc' = "done" /\ result' = "Returned" /\ log' = Append(log, "declined")
       \/ pc' = "done" /\ result' = "Aborted" /\ log' = log
    /\ UNCHANGED <<daemon, configs, pending_link, pending_dropbox_folder, fs, op,
                   args, sargs, dropbox_path, start_res, stop_res, polls, m, res,
                   link_log, path, idx, key, out, effects>>
    /\ UNCHANGED <<sync_activity, curses_loop, fatal, dialog, table, configs_locals>>

\* m = Maestral(config_name); m.unlink(); click.echo('Unlinked Maestral.')
\* An error of the unlink is reported by catch_maestral_errors.
unlink_call ==
    /\ pc = "unlink_call"
    /\ \E ok \in BOOLEAN :
         IF ok
         THEN /\ pending_link' = [pending_link EXCEPT ![args.config_name] = TRUE]
              /\ effects' = effects \cup {"unlink"}
              /\ log' = Append(log, "unlink")
              /\ out' = Append(out, "Unlinked Maestral.")
              /\ result' = "Returned"
         ELSE /\ log' = Append(log, "unlink_failed")
              /\ result' = "ClickException"
              /\ UNCHANGED <<pending_link, effects, out>>
    /\ pc' = "done"
    /\ UNCHANGED <<daemon, configs, pending_dropbox_folder, fs, op, args, sargs,
                   dropbox_path, start_res, stop_res, polls, m, res, link_log,
                   path, idx, key>>
    /\ UNCHANGED <<sync_activity, curses_loop, fatal, dialog, table, configs_locals>>

\* ------------------------------------------------------- activity.curses_loop

\* os.path.basename: what follows the last '/'.
basename(p) ==
    LET slashes == {i \in DOMAIN p : p[i] = "/"}
    IN IF slashes = {} THEN p ELSE SubSeq(p, Max(slashes) + 1, Len(p))

\* A count formatted in an f-string.
str(n) == CASE n = 0 -> "0" [] n = 1 -> "1" [] n = 2 -> "2" [] n = 3 -> "3"
            [] n = 4 -> "4" [] OTHER -> "many"

\* The rows the loop adds to the two lists of the snapshot.
UploadingHeader ==
    [dbx_path |-> <<"U", "P", "L", "O", "A", "D", "I", "N", "G">>, status |-> "STATUS"]
Separator == [dbx_path |-> <<>>, status |-> ""]
DownloadingHeader ==
    [dbx_path |-> <<"D", "O", "W", "N", "L", "O", "A", "D", "I", "N", "G">>,
     status |-> "STATUS"]

\* SummaryLines counting the lists after the headers were inserted.
SummaryLines_CountsSynthetic(status, n_errors, up, down) ==
    << <<"Status: ", status, ", Sync errors: ", str(n_errors)>>,
       <<"Uploading: ", str(Len(up) + 2), ", Downloading: ", str(Len(down) + 1)>>,
       <<>> >>

\* The first lines of a render: status, sync errors, the two counts, a blank.
SummaryLines(status, n_errors, up, down) ==
    << <<"Status: ", status, ", Sync errors: ", str(n_errors)>>,
       <<"Uploading: ", str(Len(up)), ", Downloading: ", str(Len(down))>>,
       <<>> >>

\* up.insert(0, header); up.append(separator); down.insert(0, header);
\* itertools.chain(up, down)
Chain(up, down) ==
    (<<UploadingHeader>> \o up \o <<Separator>>) \o (<<DownloadingHeader>> \o down)

\* NewList keeping what the tick before had collected.
NewList_Kept(old) == old

\* file_names = []; states = []: each tick starts its lists anew.
NewList(old) == <<>>

\* The for loop over the chain: the base names and the statuses collected.
FileNamesOf(entries) == [i \in DOMAIN entries |-> basename(entries[i].dbx_path)]
StatesOf(entries) == [i \in DOMAIN entries |-> entries[i].status]

\* col_len: the longest file name, from 0.
ColLen(fns) == Max({0} \cup {Len(fns[i]) : i \in DOMAIN fns})

\* for fn, s in zip(file_names, states): fn.ljust(col_len + 2) + s
Rows(fns, sts) ==
    [i \in 1..(IF Len(fns) < Len(sts) THEN Len(fns) ELSE Len(sts)) |->
       ljust(fns[i], ColLen(fns) + 2) \o (IF sts[i] = "" THEN <<>> ELSE <<sts[i]>>)]

\* screen.clear(); screen.addstr('\n'.join(lines)); screen.refresh()
Rendered(shown, lines) == lines

\* AfterGetch that sleeps whatever was read.
AfterGetch_AlwaysSleeps(k) == "activity_sleep"

\* AfterGetch that never sleeps.
AfterGetch_NeverSleeps(k) == IF k = "q" THEN "done" ELSE "activity_pull"

\* AfterGetch that ends the loop on any key.
AfterGetch_AnyKeyQuits(k) == IF k = "none" THEN "activity_sleep" ELSE "done"

\* if key == ord('q'): break / elif key < 0: time.sleep(1)
AfterGetch(k) ==
    IF k = "q" THEN "done"
    ELSE IF k = "none" THEN "activity_sleep"
    ELSE "activity_pull"

\* The daemon's activity changes while it runs.
daemon_syncs(c) ==
    /\ daemon[c] = "Running"
    /\ \E s \in Snapshots : s # sync_activity /\ sync_activity' = s
    /\ UNCHANGED <<daemon, configs, pending_link, pending_dropbox_folder, fs, op,
                   args, sargs, dropbox_path, pc, start_res, stop_res, polls, m,
                   res, link_log, path, idx, key, out, log, effects, result>>
    /\ UNCHANGED <<curses_loop, fatal, dialog, table, configs_locals>>

\* A tick begins: m.get_activity(), m.status, m.sync_errors.
activity_pull ==
    /\ pc = "activity_pull"
    /\ IF Reachable(args.config_name)
       THEN /\ snap' = sync_activity
            /\ prev' = IF n_ticks = 0 THEN <<>> ELSE <<snap, screen>>
            /\ n_ticks' = IF n_ticks < MaxTicks THEN n_ticks + 1 ELSE n_ticks
            /\ tick_log' = <<"pull">>
            /\ slept' = 0
            /\ pc' = "activity_render"
            /\ UNCHANGED <<m, out, result>>
       ELSE /\ session_raise_CommunicationError
            /\ UNCHANGED <<snap, prev, n_ticks, tick_log, slept>>
    /\ UNCHANGED <<daemon, configs, pending_link, pending_dropbox_folder, fs, op,
                   args, sargs, dropbox_path, start_res, stop_res, polls, res,
                   link_log, path, idx, key, log, effects>>
    /\ UNCHANGED <<sync_activity, file_names, states, screen>>
    /\ UNCHANGED <<fatal, dialog, table, configs_locals>>

\* The lines are built from what was pulled and the screen shows them.
activity_render ==
    /\ pc = "activity_render"
    /\ LET entries == Chain(snap.uploading, snap.downloading)
           fns == NewList(file_names) \o FileNamesOf(entries)
           sts == NewList(states) \o StatesOf(entries)
           lines == SummaryLines(snap.status, snap.sync_errors, snap.uploading,
                                 snap.downloading) \o Rows(fns, sts)
       IN /\ file_names' = fns
          /\ states' = sts
          /\ screen' = Rendered(screen, lines)
    /\ tick_log' = Append(tick_log, "render")
    /\ pc' = "activity_getch"
    /\ UNCHANGED <<daemon, configs, pending_link, pending_dropbox_folder, fs, op,
                   args, sargs, dropbox_path, start_res, stop_res, polls, m, res,
                   link_log, path, idx, key, out, log, effects, result>>
    /\ UNCHANGED <<sync_activity, snap, prev, n_ticks, slept>>
    /\ UNCHANGED <<fatal, dialog, table, configs_locals>>

\* key = screen.getch(), which does not wait: 'q' ends the loop, no key sleeps,
\* another key goes on to the next tick.
activity_getch ==
    /\ pc = "activity_getch"
    /\ \E k \in Keys :
         /\ key' = k
         /\ IF AfterGetch(k) = "done"
            THEN session_return(<<>>)
            ELSE /\ pc' = AfterGetch(k)
                 /\ UNCHANGED <<m, out, result>>
    /\ tick_log' = Append(tick_log, "getch")
    /\ UNCHANGED <<daemon, configs, pending_link, pending_dropbox_folder, fs, op,
                   args, sargs, dropbox_path, start_res, stop_res, polls, res,
                   link_log, path, idx, log, effects>>
    /\ UNCHANGED <<sync_activity, snap, file_names, states, screen, prev, n_ticks,
                   slept>>
    /\ UNCHANGED <<fatal, dialog, table, configs_locals>>

\* time.sleep(1)
activity_sleep ==
    /\ pc = "activity_sleep"
    /\ slept' = slept + SleepInterval
    /\ tick_log' = Append(tick_log, "sleep")
    /\ pc' = "activity_pull"
    /\ UNCHANGED <<daemon, configs, pending_link, pending_dropbox_folder, fs, op,
                   args, sargs, dropbox_path, start_res, stop_res, polls, m, res,
                   link_log, path, idx, key, out, log, effects, result>>
    /\ UNCHANGED <<sync_activity, snap, file_names, states, screen, prev, n_ticks>>
    /\ UNCHANGED <<fatal, dialog, table, configs_locals>>

\* ------------------------------------------------------------------ configs

\* list_configs(): the names of the configurations that exist, in order.
list_configs == SelectSeq(<<"maestral", "work">>, LAMBDA c : c \in configs)

\* MaestralConfig(name).get('account', 'account_id'): empty until an account
\* is linked.
account_id(c) == IF pending_link[c] THEN "" ELSE "dbid"

\* MaestralState(c).get('account', 'email'), as characters.
email(c) == IF pending_link[c] THEN <<>> ELSE <<"a", "@", "b">>

\* A configuration name as characters.
Chars(c) ==
    IF c = "maestral" THEN <<"m", "a", "e", "s", "t", "r", "a", "l">>
    ELSE <<"w", "o", "r", "k">>

\* headers=['Config name', 'Account']
ConfigsHeaders ==
    << <<"C", "o", "n", "f", "i", "g", " ", "n", "a", "m", "e">>,
       <<"A", "c", "c", "o", "u", "n", "t">> >>

\* if dbid == '' and not is_running(name)
Stale(c) == account_id(c) = "" /\ ~is_running(c)

\* maestral configs
configs_command ==
    /\ Enter("configs", NoArgs, <<>>, "configs_list")
    /\ sargs' = NoArgs
    /\ result' = "none"

\* config_names = list_configs()
configs_list ==
    /\ pc = "configs_list"
    /\ config_names' = list_configs
    /\ name_pos' = 1
    /\ pc' = "configs_check"
    /\ UNCHANGED <<daemon, configs, pending_link, pending_dropbox_folder, fs, op,
                   args, sargs, dropbox_path, start_res, stop_res, polls, m, res,
                   link_log, path, idx, key, out, log, effects, result>>
    /\ UNCHANGED <<sync_activity, curses_loop, fatal, dialog, table, names, emails>>

\* for name in config_names: the account id and is_running(name) are read;
\* after the last name the loop is left.
configs_check ==
    /\ pc = "configs_check"
    /\ IF name_pos > Len(config_names)
       THEN /\ pc' = "configs_display"
            /\ UNCHANGED name_pos
       ELSE IF Stale(config_names[name_pos])
       THEN /\ pc' = "configs_remove"
            /\ UNCHANGED name_pos
       ELSE /\ name_pos' = name_pos + 1
            /\ UNCHANGED pc
    /\ UNCHANGED <<daemon, configs, pending_link, pending_dropbox_folder, fs, op,
                   args, sargs, dropbox_path, start_res, stop_res, polls, m, res,
                   link_log, path, idx, key, out, log, effects, result>>
    /\ UNCHANGED <<sync_activity, curses_loop, fatal, dialog, table, config_names,
                   names, emails>>

\* remove_configuration(name)
configs_remove ==
    /\ pc = "configs_remove"
    /\ configs' = configs \ {config_names[name_pos]}
    /\ log' = Append(log, "remove_configuration")
    /\ name_pos' = name_pos + 1
    /\ pc' = "configs_check"
    /\ UNCHANGED <<daemon, pending_link, pending_dropbox_folder, fs, op, args,
                   sargs, dropbox_path, start_res, stop_res, polls, m, res,
                   link_log, path, idx, key, out, effects, result>>
    /\ UNCHANGED <<sync_activity, curses_loop, fatal, dialog, table, config_names,
                   names, emails>>

\* names = list_configs(); emails = [...]; the table of the two columns with
\* its headers is echoed.
configs_display ==
    /\ pc = "configs_display"
    /\ LET ns == list_configs
           es == [i \in DOMAIN ns |-> email(ns[i])]
           cols == << [i \in DOMAIN ns |-> Chars(ns[i])], es >>
           r == format_table_result(None, Some(cols), Some(ConfigsHeaders), 2,
                                    NoAlignment, TRUE, 80)
       IN /\ names' = ns
          /\ emails' = es
          /\ rows' = None
          /\ columns' = r.columns
          /\ headers' = Some(ConfigsHeaders)
          /\ padding' = 2
          /\ alignment' = NoAlignment
          /\ wrap' = TRUE
          /\ terminal_width' = 80
          /\ natural_widths' = r.natural_widths
          /\ col_widths' = r.col_widths
          /\ raised' = r.raised
          /\ returned' = r.returned
          /\ n_calls' = 1
          /\ out' = IF r.raised = "none" THEN Append(out, "table") ELSE out
          /\ result' = IF r.raised = "none" THEN "Returned" ELSE r.raised
    /\ pc' = "done"
    /\ UNCHANGED <<daemon, configs, pending_link, pending_dropbox_folder, fs, op,
                   args, sargs, dropbox_path, start_res, stop_res, polls, m, res,
                   link_log, path, idx, key, log, effects>>
    /\ UNCHANGED <<sync_activity, curses_loop, fatal, dialog, config_names, name_pos>>

\* Another maestral start, run from another shell for the configuration,
\* launches its daemon (start_maestral_daemon_process).
other_start(c) ==
    /\ daemon[c] = "NotRunning"
    /\ daemon' = [daemon EXCEPT ![c] = "Running"]
    /\ configs' = configs \cup {c}
    /\ UNCHANGED <<pending_link, pending_dropbox_folder, fs, op, args, sargs,
                   dropbox_path, pc, start_res, stop_res, polls, m, res, link_log,
                   path, idx, key, out, log, effects, result>>
    /\ UNCHANGED <<sync_activity, curses_loop, fatal, dialog, table, configs_locals>>

\* The other start's link_dialog links the account.
other_link(c) ==
    /\ daemon[c] = "Running"
    /\ pending_link[c]
    /\ pending_link' = [pending_link EXCEPT ![c] = FALSE]
    /\ UNCHANGED <<daemon, configs, pending_dropbox_folder, fs, op, args, sargs,
                   dropbox_path, pc, start_res, stop_res, polls, m, res, link_log,
                   path, idx, key, out, log, effects, result>>
    /\ UNCHANGED <<sync_activity, curses_loop, fatal, dialog, table, configs_locals>>

\* ------------------------------------------------------------ specification

Init ==
    /\ daemon = [c \in ConfigNames |-> "NotRunning"]
    /\ configs = {}
    /\ pending_link = [c \in ConfigNames |-> TRUE]
    /\ pending_dropbox_folder \in [ConfigNames -> BOOLEAN]
    /\ fs = {}
    /\ op = "none"
    /\ args = NoArgs
    /\ sargs = NoArgs
    /\ dropbox_path = <<>>
    /\ pc = "idle"
    /\ start_res = "none"
    /\ stop_res = "none"
    /\ polls = 0
    /\ m = "none"
    /\ res = -1
    /\ link_log = <<>>
    /\ path = "none"
    /\ idx = 1
    /\ key = "none"
    /\ out = <<>>
    /\ log = <<>>
    /\ effects = {}
    /\ result = "none"
    /\ sync_activity = IdleSnapshot
    /\ snap = IdleSnapshot
    /\ file_names = <<>>
    /\ states = <<>>
    /\ screen = <<>>
    /\ prev = <<>>
    /\ n_ticks = 0
    /\ tick_log = <<>>
    /\ slept = 0
    /\ maestral_err_list = <<>>
    /\ err_title = <<>>
    /\ wrapped_msg = <<>>
    /\ choice = "none"
    /\ err = FALSE
    /\ NoCall
    /\ config_names = <<>>
    /\ name_pos = 1
    /\ names = <<>>
    /\ emails = <<>>

\* The steps of the command that is running.
Step ==
    \/ stop_daemon_request
    \/ stop_daemon_wait
    \/ stop_daemon_feedback
    \/ start_daemon
    \/ start_daemon_wait
    \/ start_result
    \/ start_get_proxy
    \/ start_pending_link
    \/ link_dialog
    \/ link_dialog_loop
    \/ start_pending_dropbox_folder
    \/ select_dbx_path_dialog
    \/ start_create_dropbox_directory
    \/ start_exclude_folders
    \/ start_sync
    \/ start_join
    \/ excluded_remove_path
    \/ move_dir_path
    \/ session_enter
    \/ session_call
    \/ session_link
    \/ unlink_confirm
    \/ unlink_call
    \/ activity_pull
    \/ activity_render
    \/ activity_getch
    \/ activity_sleep
    \/ exit

Next ==
    \/ \E f \in BOOLEAN, v \in BOOLEAN, c \in ConfigNames : start(f, v, c)
    \/ \E c \in ConfigNames : stop(c)
    \/ \E f \in BOOLEAN, v \in BOOLEAN, c \in ConfigNames : restart(f, v, c)
    \/ \E o \in StrictCommands \ {"excluded_remove"}, c \in ConfigNames :
         session_command(o, c, <<>>)
    \/ \E c \in ConfigNames, dp \in DbxPaths : session_command("excluded_remove", c, dp)
    \/ \E o \in FlagCommands, c \in ConfigNames, flag \in BOOLEAN :
         fallback_command(o, c, flag, <<>>)
    \/ \E o \in FallbackCommands \ (FlagCommands \cup {"excluded_add"}),
          c \in ConfigNames : fallback_command(o, c, FALSE, <<>>)
    \/ \E c \in ConfigNames, dp \in DbxPaths :
         fallback_command("excluded_add", c, FALSE, dp)
    \/ \E c \in ConfigNames : unlink(c)
    \/ \E c \in ConfigNames : daemon_exits(c)
    \/ Step

Spec == Init /\ [][Next]_vars

\* stop_maestral_daemon_process, once called, keeps polling until it returns.
FairSpec == Spec /\ WF_vars(stop_daemon_wait)

\* The activity command beside a daemon that is syncing: the daemon of the
\* default configuration runs, is linked and has its folder.
ActivityInit ==
    /\ daemon = [c \in ConfigNames |-> IF c = "maestral" THEN "Running" ELSE "NotRunning"]
    /\ configs = {"maestral"}
    /\ pending_link = [c \in ConfigNames |-> c # "maestral"]
    /\ pending_dropbox_folder = [c \in ConfigNames |-> c # "maestral"]
    /\ fs = DirPaths
    /\ op = "none"
    /\ args = NoArgs
    /\ sargs = NoArgs
    /\ dropbox_path = <<>>
    /\ pc = "idle"
    /\ start_res = "none"
    /\ stop_res = "none"
    /\ polls = 0
    /\ m = "none"
    /\ res = -1
    /\ link_log = <<>>
    /\ path = "none"
    /\ idx = 1
    /\ key = "none"
    /\ out = <<>>
    /\ log = <<>>
    /\ effects = {}
    /\ result = "none"
    /\ sync_activity \in Snapshots
    /\ snap = IdleSnapshot
    /\ file_names = <<>>
    /\ states = <<>>
    /\ screen = <<>>
    /\ prev = <<>>
    /\ n_ticks = 0
    /\ tick_log = <<>>
    /\ slept = 0
    /\ maestral_err_list = <<>>
    /\ err_title = <<>>
    /\ wrapped_msg = <<>>
    /\ choice = "none"
    /\ err = FALSE
    /\ NoCall
    /\ config_names = <<>>
    /\ name_pos = 1
    /\ names = <<>>
    /\ emails = <<>>

ActivityNext ==
    \/ session_command("activity", "maestral", <<>>)
    \/ session_enter
    \/ session_call
    \/ activity_pull
    \/ activity_render
    \/ activity_getch
    \/ activity_sleep
    \/ exit
    \/ daemon_syncs("maestral")
    \/ daemon_exits("maestral")

ActivitySpec == ActivityInit /\ [][ActivityNext]_vars

\* No command is running and none has run.
NoCommand ==
    /\ op = "none"
    /\ args = NoArgs
    /\ sargs = NoArgs
    /\ dropbox_path = <<>>
    /\ pc = "idle"
    /\ start_res = "none"
    /\ stop_res = "none"
    /\ polls = 0
    /\ m = "none"
    /\ res = -1
    /\ link_log = <<>>
    /\ path = "none"
    /\ idx = 1
    /\ key = "none"
    /\ out = <<>>
    /\ log = <<>>
    /\ effects = {}
    /\ result = "none"
    /\ sync_activity = IdleSnapshot
    /\ snap = IdleSnapshot
    /\ file_names = <<>>
    /\ states = <<>>
    /\ screen = <<>>
    /\ prev = <<>>
    /\ n_ticks = 0
    /\ tick_log = <<>>
    /\ slept = 0
    /\ maestral_err_list = <<>>
    /\ err_title = <<>>
    /\ wrapped_msg = <<>>
    /\ choice = "none"
    /\ err = FALSE
    /\ config_names = <<>>
    /\ name_pos = 1
    /\ names = <<>>
    /\ emails = <<>>

\* format_table called with every table, headers, padding, alignment and wrap
\* of the value sets, on every terminal.
TableInit ==
    /\ daemon = [c \in ConfigNames |-> "NotRunning"]
    /\ configs = {}
    /\ pending_link = [c \in ConfigNames |-> TRUE]
    /\ pending_dropbox_folder = [c \in ConfigNames |-> TRUE]
    /\ fs = {}
    /\ NoCommand
    /\ \E d \in DataArgs : rows = d[1] /\ columns = d[2]
    /\ headers \in HeaderArgs
    /\ padding \in 0..MaxPadding
    /\ alignment \in AlignmentArgs
    /\ wrap \in BOOLEAN
    /\ terminal_width \in TerminalWidths
    /\ natural_widths = <<>>
    /\ col_widths = <<>>
    /\ raised = "none"
    /\ returned = <<>>
    /\ n_calls = 0

TableNext == format_table

TableSpec == TableInit /\ [][TableNext]_vars

\* maestral configs beside start commands run from other shells: any
\* configurations exist, linked or not, and a daemon that runs has its
\* configuration.
ConfigsInit ==
    /\ daemon \in [ConfigNames -> {"NotRunning", "Running"}]
    /\ configs \in SUBSET ConfigNames
    /\ \A c \in ConfigNames : daemon[c] = "Running" => c \in configs
    /\ pending_link \in [ConfigNames -> BOOLEAN]
    /\ pending_dropbox_folder = [c \in ConfigNames |-> TRUE]
    /\ fs = {}
    /\ NoCommand
    /\ NoCall

ConfigsNext ==
    \/ configs_command
    \/ configs_list
    \/ configs_check
    \/ configs_remove
    \/ configs_display
    \/ exit
    \/ \E c \in ConfigNames : other_start(c)
    \/ \E c \in ConfigNames : other_link(c)
    \/ \E c \in ConfigNames : daemon_exits(c)

ConfigsSpec == ConfigsInit /\ [][ConfigsNext]_vars

\* ------------------------------------------------------------------ claims

StartCommands == {"start", "restart"}

InLog(x) == Index(log, x) > 0

\* The calls of start's post-start setup.
SetupCalls ==
    {"get_maestral_proxy", "link_dialog", "link_dialog_returned",
     "select_dbx_path_dialog_returned", "create_dropbox_directory", "list_folder",
     "set_excluded_items", "log_to_stdout", "start_sync", "join"}

NoSetup ==
    /\ \A x \in SetupCalls : ~InLog(x)
    /\ m = "none"
    /\ effects = {}
    /\ link_log = <<>>
    /\ path = "none"

\* C1: start on a configuration whose daemon is Running reports AlreadyRunning
\* and leaves the daemon Running (a start that reported Ok has left it Running,
\* so that the next start finds it so), and a start that reported AlreadyRunning
\* does nothing of the post-start setup: no proxy, no link dialog, no folder,
\* no start_sync; it echoes "Already running." and returns.
C1_StartWhenRunning ==
    /\ [](start_res = "AlreadyRunning" =>
            /\ NoSetup
            /\ pc \in {"start_result", "done"}
            /\ pc = "done" =>
                 /\ result = "Returned"
                 /\ out[Len(out)] = "Starting Already running.")
    /\ [][pc = "start_daemon" /\ pc' # "start_daemon" =>
            IF daemon[sargs.config_name] = "Running"
            THEN start_res' = "AlreadyRunning" /\ daemon' = daemon
            ELSE start_res' = "none"]_vars
    /\ [][pc = "start_wait" /\ start_res' = "Ok" =>
            daemon'[sargs.config_name] = "Running"]_vars
    /\ [][start_res = "AlreadyRunning" /\ pc' # pc /\ pc # "done" =>
            daemon' = daemon /\ pc' = "done"]_vars

C1_Witness ==
    /\ op = "start"
    /\ pc = "done"
    /\ start_res = "AlreadyRunning"
    /\ daemon[args.config_name] = "Running"

\* C2 as stated: for ANY configuration name, a stop that finds no running
\* daemon (it did not stop one) has reported "Maestral daemon is not running."
\* and has returned without an error.
C2_AnyConfigName ==
    op = "stop" /\ pc = "done" /\ stop_res \notin {"Ok", "Killed"} =>
        /\ stop_res = "NotRunning"
        /\ result = "Returned"
        /\ out = <<"Maestral daemon is not running.">>

\* C2, amended: for any configuration name that exists (or the default one),
\* a stop that finds no running daemon reports "Maestral daemon is not
\* running.", returns without an error and leaves the daemon as it was, not
\* running; whatever ran before it.
C2_StopWhenNotRunning ==
    /\ [](op = "stop" /\ pc = "done" /\ _check_config(args.config_name)
            /\ stop_res \notin {"Ok", "Killed"} =>
              /\ stop_res = "NotRunning"
              /\ result = "Returned"
              /\ out = <<"Maestral daemon is not running.">>
              /\ ~is_running(args.config_name))
    /\ [][op = "stop" /\ pc = "stop_daemon" /\ pc' # "stop_daemon"
            /\ daemon[args.config_name] # "Running" =>
              /\ stop_res' = "NotRunning"
              /\ daemon' = daemon]_vars
    /\ [][op = "stop" /\ pc = "stop_feedback" /\ pc' # "stop_feedback" =>
              /\ daemon' = daemon
              /\ pc' = "done"]_vars

C2_Witness ==
    /\ op = "stop"
    /\ pc = "done"
    /\ args.config_name = "work"
    /\ stop_res = "NotRunning"
    /\ daemon[args.config_name] = "Killed"

\* C3: in restart, whenever the start step reports Ok the daemon of restart's
\* configuration is Running at that moment, whatever stop reported before.
C3_RestartRuns ==
    [][op = "restart" /\ pc = "start_wait" /\ start_res' = "Ok" =>
         /\ daemon'[args.config_name] = "Running"
         /\ stop_res \in {"Ok", "NotRunning", "Killed"}]_vars

C3_Witness ==
    /\ op = "restart"
    /\ stop_res = "Killed"
    /\ start_res = "Ok"
    /\ pc = "start_result"
    /\ daemon[args.config_name] = "Running"

\* C4: restart calls stop first and start exactly once, after stop has
\* returned, with the foreground, verbose and configuration name it was given,
\* whatever stop reported.
C4_RestartOrder ==
    op = "restart" /\ result # "UsageError" =>
        /\ Count(log, "stop") = (IF pc = "stop_daemon" THEN 0 ELSE 1)
        /\ Count(log, "stop_returned") =
             (IF pc \in {"stop_daemon", "stop_wait", "stop_feedback"} THEN 0 ELSE 1)
        /\ Count(log, "start") =
             (IF pc \in {"stop_daemon", "stop_wait", "stop_feedback", "start_daemon"}
              THEN 0 ELSE 1)
        /\ InLog("start") =>
             /\ Index(log, "stop") < Index(log, "stop_returned")
             /\ Index(log, "stop_returned") < Index(log, "start")
             /\ stop_res \in {"Ok", "NotRunning", "Killed"}
        /\ InLog("stop_returned") => sargs = args

C4_Witness ==
    /\ op = "restart"
    /\ pc = "done"
    /\ stop_res = "NotRunning"
    /\ args.foreground
    /\ args.verbose
    /\ args.config_name = "work"
    /\ start_res = "Ok"

\* The outcome lines of stop among the lines echoed.
StopLinesOf(o) == {i \in DOMAIN o : o[i] \in StopLines}

\* C5: a stop that found the daemon Running ends with Ok or Killed and with the
\* daemon no longer alive: Ok when the daemon exited within the grace period,
\* Killed exactly when the grace period was over and the daemon was killed;
\* the command then echoes exactly one outcome line, that of the result, and
\* goes on without an error; and the wait always ends.
C5_StopWhenRunning ==
    /\ [][pc = "stop_wait" /\ pc' # "stop_wait" =>
            /\ pc' = "stop_feedback"
            /\ stop_res' \in {"Ok", "Killed"}
            /\ daemon'[args.config_name] \in {"NotRunning", "Killed"}
            /\ stop_res' = "Ok" <=> daemon'[args.config_name] = "NotRunning"
            /\ stop_res' = "Killed" <=>
                 (polls = GracePolls /\ daemon'[args.config_name] = "Killed")]_vars
    /\ [][pc = "stop_feedback" /\ pc' # "stop_feedback" =>
            /\ result' = (IF op \in {"restart", "unlink"} THEN "none" ELSE "Returned")
            /\ daemon' = daemon]_vars
    /\ [](stop_res \in {"Ok", "Killed"} =>
            /\ Cardinality(StopLinesOf(out)) = (IF InLog("stop_returned") THEN 1 ELSE 0)
            /\ InLog("stop_returned") =>
                 out[1] = (IF stop_res = "Ok" THEN "Stopping [OK]"
                           ELSE "Stopping [KILLED]")
            /\ op = "stop" /\ pc = "done" => result = "Returned" /\ Len(out) = 1)
    /\ (pc = "stop_wait" ~> pc = "stop_feedback")

C5_Witness ==
    /\ op = "stop"
    /\ pc = "done"
    /\ stop_res = "Killed"
    /\ daemon[args.config_name] = "Killed"
    /\ out = <<"Stopping [KILLED]">>

\* C6: a start whose launch failed leaves the daemon NotRunning, echoes the
\* failure and returns, and does nothing of the post-start setup: no proxy, no
\* link dialog, no folder selection, no start_sync.
C6_StartFailed ==
    /\ [](start_res = "Failed" =>
            /\ NoSetup
            /\ pc \in {"start_result", "done"}
            /\ pc = "done" =>
                 /\ result = "Returned"
                 /\ out[Len(out) - 1] = "Starting [FAILED]"
                 /\ out[Len(out)] = "Please check logs for more information.")
    /\ [][pc = "start_wait" /\ start_res' = "Failed" =>
            daemon'[sargs.config_name] = "NotRunning"]_vars
    /\ [][start_res = "Failed" /\ pc' # pc /\ pc # "done" =>
            daemon' = daemon /\ pc' = "done"]_vars

C6_Witness ==
    /\ op = "start"
    /\ pc = "done"
    /\ start_res = "Failed"
    /\ daemon[args.config_name] = "NotRunning"

\* C7: the link dialog returns only after a link call that returned success
\* (0), which is the last call and the only successful one: after an invalid
\* token (1) or a connection failure (2) it asks and calls again.
C7_LinkDialog ==
    /\ \A i \in 1..(Len(link_log) - 1) : link_log[i] # 0
    /\ InLog("link_dialog_returned") =>
         /\ Len(link_log) >= 1
         /\ link_log[Len(link_log)] = 0
    /\ pc = "link_loop" /\ link_log # <<>> => res = link_log[Len(link_log)]
    /\ pc = "link_loop" /\ res # 0 => ~InLog("link_dialog_returned")

C7_Witness ==
    /\ InLog("link_dialog_returned")
    /\ Len(link_log) >= 2
    /\ link_log[1] = 2

\* C8: in start, start_sync is called at most once, once when start returns
\* after Ok, and only after the setup: after the link dialog has returned from
\* a successful link if there was one, after the folder was selected and
\* create_dropbox_directory called with it if there was one, the link dialog
\* before the folder selection; and at the call neither pending_link nor
\* pending_dropbox_folder holds.
C8_SetupBeforeSync ==
    /\ [](op \in StartCommands =>
            /\ Count(log, "start_sync") <= 1
            /\ pc = "done" /\ result = "Returned" /\ start_res = "Ok" =>
                 Count(log, "start_sync") = 1
            /\ InLog("start_sync") =>
                 /\ start_res = "Ok"
                 /\ InLog("link_dialog") =>
                      /\ Before(log, "link_dialog_returned", "start_sync")
                      /\ link_log[Len(link_log)] = 0
                 /\ InLog("select_dbx_path_dialog_returned") =>
                      /\ Before(log, "select_dbx_path_dialog_returned",
                                "create_dropbox_directory")
                      /\ Before(log, "create_dropbox_directory", "start_sync")
                      /\ path \in DirPaths
            /\ InLog("link_dialog") /\ InLog("select_dbx_path_dialog_returned") =>
                 Before(log, "link_dialog_returned", "select_dbx_path_dialog_returned")
            /\ InLog("create_dropbox_directory") =>
                 InLog("select_dbx_path_dialog_returned"))
    /\ [][~InLog("start_sync") /\ InLog("start_sync")' =>
            /\ ~pending_link[sargs.config_name]
            /\ ~pending_dropbox_folder[sargs.config_name]]_vars
    /\ [][~InLog("create_dropbox_directory") /\ InLog("create_dropbox_directory")' =>
            path \in fs']_vars

C8_Witness ==
    /\ op = "start"
    /\ pc = "done"
    /\ result = "Returned"
    /\ InLog("link_dialog_returned")
    /\ InLog("create_dropbox_directory")
    /\ InLog("start_sync")

\* C9: a foreground start that reported Ok returns only when the daemon's
\* thread has exited, and joins it after start_sync; a background start
\* returns after start_sync without waiting, the daemon still running or not.
C9_ForegroundJoin ==
    /\ [](op \in StartCommands /\ pc = "done" /\ result = "Returned"
            /\ start_res = "Ok" =>
              /\ InLog("start_sync")
              /\ sargs.foreground => Before(log, "start_sync", "join")
              /\ ~sargs.foreground => ~InLog("join"))
    /\ [][pc = "start_join" /\ pc' = "done" /\ sargs.foreground =>
            ~is_running(sargs.config_name)]_vars
    /\ [](pc = "start_join" =>
            (ENABLED start_join <=>
               (~sargs.foreground \/ ~is_running(sargs.config_name))))

C9_Witness ==
    /\ op = "start"
    /\ pc = "done"
    /\ result = "Returned"
    /\ sargs.foreground
    /\ InLog("join")
    /\ ~is_running(sargs.config_name)

\* C10: a command with a strict session that finds no daemon to reach ends at
\* once with its "not running" outcome: no daemon operation has taken effect,
\* no session is left, no daemon was started (the lifecycle state is as it
\* was), and the transport error does not leave the command.
C10_StrictUnreachable ==
    /\ [][pc = "session_enter" /\ pc' # "session_enter"
            /\ op \in StrictCommands /\ ~Reachable(args.config_name) =>
              /\ pc' = "done"
              /\ result' \in {"Returned", "ClickException"}
              /\ out' = out \o CommErrorLines(op)
              /\ out'[Len(out')] \in UnreachableLines
              /\ m' = "none"
              /\ effects' = {}
              /\ daemon' = daemon]_vars
    /\ [](op \in StrictCommands /\ InLog("unreachable") =>
            /\ result \in {"Returned", "ClickException"}
            /\ effects = {}
            /\ idx = 1
            /\ m = "none"
            /\ ~Reachable(args.config_name))

C10_Witness ==
    /\ op = "pause"
    /\ pc = "done"
    /\ InLog("unreachable")
    /\ result = "Returned"
    /\ out = <<"Maestral daemon is not running.">>

\* The exception of the transport has left the command.
RawTransportError == result = "CommunicationError"

\* C11: a transport failure after the session was acquired never leaves the
\* command as the raw exception of the transport, whatever the command: a
\* command that holds a proxy of the daemon never ends in CommunicationError.
C11_TransportFailureSurfaced == [][m = "proxy" => ~RawTransportError']_vars

\* C12: a command that asks for the fallback and finds no daemon to reach gets
\* an instance in its own process: its calls go through and none ends in the
\* "not running" outcome or in a transport error; no daemon is started (the
\* daemon of the configuration is not alive and its state stays as it was); and
\* the instance is gone when the command has ended.
C12_FallbackInProcess ==
    /\ [][pc = "session_enter" /\ pc' # "session_enter" /\ op \in FallbackCommands
            /\ ~Reachable(args.config_name) =>
              /\ m' = "in_process"
              /\ pc' = "session_body"
              /\ daemon' = daemon
              /\ out' = out]_vars
    /\ [][m = "in_process" =>
            /\ daemon'[args.config_name] = daemon[args.config_name]
            /\ ~RawTransportError'
            /\ \A i \in DOMAIN out' : out'[i] \notin UnreachableLines
            /\ pc = "session_body" /\ idx <= Len(BodyCalls(op)) /\ pc' = "done" =>
                 \/ result' = "Aborted"
                 \/ BodyCalls(op)[idx] \in {"fatal_errors", "pending_link"}]_vars
    /\ [](m = "in_process" =>
            /\ op \in FallbackCommands
            /\ pc = "session_body"
            /\ ~is_running(args.config_name))
    /\ [](op \in FallbackCommands /\ InLog("fallback") /\ pc = "done"
            /\ result = "Returned" /\ out = SuccessLines(op) =>
              \A i \in DOMAIN BodyCalls(op) :
                 BodyCalls(op)[i] \in Mutating => BodyCalls(op)[i] \in effects)

C12_Witness ==
    /\ op = "restore"
    /\ pc = "done"
    /\ InLog("fallback")
    /\ result = "Returned"
    /\ "restore" \in effects
    /\ m = "none"
    /\ daemon[args.config_name] = "NotRunning"

\* C13: when a command has ended, on whatever path, it holds no session.
C13_SessionReleased == pc = "done" => m = "none"

\* C14: unlink, when the user confirms, calls stop and performs the unlink
\* only after stop has returned, when the daemon of the configuration is not
\* running; when the user declines, it calls neither stop nor unlink and
\* changes nothing.
C14_UnlinkStopsFirst ==
    /\ [](op = "unlink" /\ result # "UsageError" =>
            /\ InLog("stop") => Before(log, "confirmed", "stop")
            /\ InLog("unlink") \/ InLog("unlink_failed") =>
                 /\ Before(log, "stop", "stop_returned")
                 /\ Count(log, "stop") = 1
                 /\ stop_res \in {"Ok", "NotRunning", "Killed"}
            /\ InLog("unlink") => Before(log, "stop_returned", "unlink")
            /\ InLog("unlink_failed") => Before(log, "stop_returned", "unlink_failed")
            /\ InLog("confirmed") /\ pc = "done" /\ result = "Returned" =>
                 /\ log = <<"confirmed", "stop", "stop_returned", "unlink">>
                 /\ out[Len(out)] = "Unlinked Maestral."
            /\ InLog("declined") =>
                 /\ log = <<"declined">>
                 /\ pc = "done"
                 /\ result = "Returned"
                 /\ effects = {}
                 /\ out = <<>>
                 /\ stop_res = "none")
    /\ [][pc = "unlink_call" /\ pc' # "unlink_call" =>
            /\ daemon[args.config_name] # "Running"
            /\ ~is_running(args.config_name)]_vars
    /\ [][pc = "unlink_confirm" /\ pc' = "done" => world' = world]_vars

C14_Witness ==
    /\ op = "unlink"
    /\ pc = "done"
    /\ stop_res = "Ok"
    /\ "unlink" \in effects
    /\ log = <<"confirmed", "stop", "stop_returned", "unlink">>
    /\ out = <<"Stopping [OK]", "Unlinked Maestral.">>

\* The render of the running tick is on the screen.
Shown == \E i \in DOMAIN tick_log : tick_log[i] = "render"

\* The positions of the command inside curses_loop's while.
LoopPcs == {"activity_pull", "activity_render", "activity_getch", "activity_sleep"}

\* C15: activity entered when no daemon answers echoes "Maestral daemon is not
\* running." and ends: no tick is begun, nothing is pulled, nothing is rendered.
C15_ActivityUnreachable ==
    /\ [][op = "activity" /\ pc = "session_enter" /\ pc' # "session_enter"
            /\ ~Reachable(args.config_name) =>
              /\ pc' = "done"
              /\ result' = "Returned"
              /\ out' = <<"Maestral daemon is not running.">>]_vars
    /\ [](op = "activity" /\ InLog("unreachable") =>
            /\ pc = "done"
            /\ out = <<"Maestral daemon is not running.">>
            /\ n_ticks = 0
            /\ tick_log = <<>>
            /\ snap = IdleSnapshot
            /\ file_names = <<>>
            /\ screen = <<>>
            /\ slept = 0)

C15_Witness ==
    /\ op = "activity"
    /\ pc = "done"
    /\ InLog("unreachable")
    /\ n_ticks = 0
    /\ screen = <<>>
    /\ ~Reachable(args.config_name)

\* C16: a tick polls the input once, after its render, without waiting; on
\* the quit key the loop ends in that tick, with no sleep, no pull and no render
\* after it; with no input the loop sleeps SleepInterval and then begins the
\* next tick; and time passes in the loop in this sleep only.
C16_PollOncePerTick ==
    /\ [](op = "activity" =>
            /\ tick_log \in {<<>>, <<"pull">>, <<"pull", "render">>,
                             <<"pull", "render", "getch">>,
                             <<"pull", "render", "getch", "sleep">>}
            /\ pc = "activity_getch" => tick_log = <<"pull", "render">>
            /\ pc = "activity_sleep" => tick_log = <<"pull", "render", "getch">>
            /\ slept \in {0, SleepInterval}
            /\ slept = SleepInterval <=>
                 tick_log = <<"pull", "render", "getch", "sleep">>)
    /\ [][pc = "activity_getch" /\ pc' # "activity_getch" =>
            /\ tick_log' = <<"pull", "render", "getch">>
            /\ slept' = 0
            /\ key' = "q" => /\ pc' = "done"
                             /\ result' = "Returned"
                             /\ m' = "none"
                             /\ <<snap, screen, n_ticks>>' = <<snap, screen, n_ticks>>
            /\ key' = "none" => pc' = "activity_sleep"]_vars
    /\ [][pc = "activity_sleep" /\ pc' # "activity_sleep" =>
            /\ key = "none"
            /\ pc' = "activity_pull"
            /\ slept' = SleepInterval]_vars
    /\ [][slept' > slept => pc = "activity_sleep"]_vars
    /\ [][pc = "activity_pull" /\ pc' # "activity_pull" /\ n_ticks > 0 =>
            Count(tick_log, "getch") = 1]_vars

C16_Witness ==
    /\ op = "activity"
    /\ pc = "activity_pull"
    /\ key = "none"
    /\ tick_log = <<"pull", "render", "getch", "sleep">>
    /\ slept = SleepInterval

\* C17 as stated: the loop ends only when the quit key is read.
C17_OnlyQuitEnds ==
    [][(pc \in LoopPcs) /\ pc' \notin LoopPcs => pc = "activity_getch" /\ key' = "q"]_vars

\* C17, amended: once begun, the loop has no bound on its ticks (in every
\* position of it a step of it can be taken, unless it waits for a daemon call
\* to answer) and sends nothing to the daemon that ends or changes it; it ends
\* when the quit key is read, and also when the daemon no longer answers the
\* calls that begin a tick, which ends the command with "Maestral daemon is not
\* running."; no key other than the quit key, no render and no sleep ends it.
C17_LoopEnds ==
    /\ [][(pc \in LoopPcs) /\ pc' \notin LoopPcs =>
            /\ pc' = "done"
            /\ result' = "Returned"
            /\ m' = "none"
            /\ \/ /\ pc = "activity_getch"
                  /\ key' = "q"
                  /\ out' = out
               \/ /\ pc = "activity_pull"
                  /\ ~Reachable(args.config_name)
                  /\ out' = Append(out, "Maestral daemon is not running.")]_vars
    /\ [][(pc \in LoopPcs) /\ pc' # pc => daemon' = daemon /\ effects' = effects]_vars
    /\ [](pc \in LoopPcs =>
            ENABLED (activity_pull \/ activity_render \/ activity_getch
                       \/ activity_sleep))
    /\ [][(pc \in LoopPcs) /\ n_ticks = MaxTicks /\ pc' # pc =>
            n_ticks' = MaxTicks]_vars

C17_Witness ==
    /\ op = "activity"
    /\ pc = "done"
    /\ n_ticks = MaxTicks
    /\ key = "other"
    /\ prev # <<>>
    /\ out = <<"Maestral daemon is not running.">>

\* C18 as stated: the pull of a next tick comes only after a sleep.
C18_SleepBetweenTicks ==
    [][(pc \in {"activity_getch", "activity_sleep"}) /\ pc' = "activity_pull" =>
         pc = "activity_sleep"]_vars

\* C18, amended: after a tick that found no input the next pull comes only
\* after a sleep of SleepInterval; after a tick that read a key other than the
\* quit key the next tick begins at once, with no sleep.
C18_SleepWhenNoInput ==
    /\ [][pc = "activity_getch" /\ pc' # "activity_getch" =>
            /\ key' = "none" <=> pc' = "activity_sleep"
            /\ key' = "other" <=> pc' = "activity_pull"]_vars
    /\ [][pc = "activity_sleep" /\ pc' # "activity_sleep" =>
            /\ pc' = "activity_pull"
            /\ slept = 0
            /\ slept' = SleepInterval]_vars
    /\ [][pc' = "activity_pull" /\ pc \in LoopPcs /\ pc # "activity_pull" =>
            \/ pc = "activity_sleep" /\ key = "none"
            \/ pc = "activity_getch" /\ key' = "other"]_vars
    /\ [][pc = "activity_pull" /\ pc' = "activity_render" /\ n_ticks > 0 =>
            \/ key = "none" /\ slept = SleepInterval
            \/ key = "other" /\ slept = 0]_vars

C18_Witness ==
    /\ op = "activity"
    /\ pc = "activity_render"
    /\ prev # <<>>
    /\ key = "none"
    /\ n_ticks = MaxTicks

\* A line that shows a name, blanks and a status.
RowShows(line, name, status) ==
    /\ Len(line) > Len(name)
    /\ SubSeq(line, 1, Len(name)) = name
    /\ IF status = ""
       THEN \A i \in (Len(name) + 1)..Len(line) : line[i] = " "
       ELSE /\ line[Len(line)] = status
            /\ \A i \in (Len(name) + 1)..(Len(line) - 1) : line[i] = " "
            /\ Len(line) - 1 >= Len(name) + 2

\* The last component of each path of the value sets, written out.
NameOf(e) ==
    CASE e = EntryA -> <<"a">> [] e = EntryB -> <<"b">> [] e = EntryC -> <<"c">>

\* C19: a tick pulls once and its render shows the status line, the line of
\* the two counts (the numbers of uploading and of downloading items of the
\* snapshot, the added rows not counted), a blank line, the UPLOADING header,
\* the uploading items in the snapshot's order, each with its own status, a
\* blank row, the DOWNLOADING header and the downloading items in the
\* snapshot's order, each with its own status; and nothing else: nothing of
\* the render before is left.
C19_TickRender ==
    Shown =>
      LET up == snap.uploading
          down == snap.downloading
          nu == Len(up)
          nd == Len(down)
      IN /\ Count(tick_log, "pull") = 1
         /\ Len(screen) = 3 + (1 + nu + 1) + (1 + nd)
         /\ screen[1] = <<"Status: ", snap.status, ", Sync errors: ",
                          IF snap.sync_errors = 0 THEN "0" ELSE "1">>
         /\ screen[2] = <<"Uploading: ", IF nu = 0 THEN "0" ELSE "2",
                          ", Downloading: ", IF nd = 0 THEN "0" ELSE "1">>
         /\ screen[3] = <<>>
         /\ RowShows(screen[4], <<"U", "P", "L", "O", "A", "D", "I", "N", "G">>,
                     "STATUS")
         /\ \A i \in 1..nu : RowShows(screen[4 + i], NameOf(up[i]), up[i].status)
         /\ RowShows(screen[5 + nu], <<>>, "")
         /\ RowShows(screen[6 + nu],
                     <<"D", "O", "W", "N", "L", "O", "A", "D", "I", "N", "G">>,
                     "STATUS")
         /\ \A i \in 1..nd :
              RowShows(screen[6 + nu + i], NameOf(down[i]), down[i].status)

C19_Witness ==
    /\ pc = "activity_getch"
    /\ n_ticks = MaxTicks
    /\ snap.uploading = <<EntryB, EntryA>>
    /\ snap.downloading = <<EntryC>>
    /\ Len(screen) = 9
    /\ prev # <<>>
    /\ prev[1] # snap

\* The rows of the screen that show the name.
RowsNamed(name) ==
    {i \in 4..Len(screen) : SubSeq(screen[i], 1, Len(name)) = name}

\* C20: what a tick renders depends on what it pulled only: a tick that pulled
\* what the tick before it had pulled renders the same lines, whatever was
\* pulled earlier; the lists of the loop hold the rows of the running tick
\* only, and each added header and the separator is on the screen once.
C20_StatelessRefresh ==
    Shown =>
      /\ prev # <<>> /\ prev[1] = snap => prev[2] = screen
      /\ Len(file_names) = Len(snap.uploading) + Len(snap.downloading) + 3
      /\ Len(states) = Len(file_names)
      /\ Cardinality(RowsNamed(<<"U", "P", "L", "O", "A", "D", "I", "N", "G">>)) = 1
      /\ Cardinality(RowsNamed(<<"D", "O", "W", "N", "L", "O", "A", "D", "I", "N",
                                 "G">>)) = 1
      /\ Cardinality({i \in 4..Len(screen) :
                        \A j \in DOMAIN screen[i] : screen[i][j] = " "}) = 1

C20_Witness ==
    /\ pc = "activity_getch"
    /\ n_ticks = MaxTicks
    /\ prev # <<>>
    /\ prev[1] = snap
    /\ prev[2] = screen
    /\ snap.uploading = <<EntryA, EntryB>>

\* The call of format_table has been made.
Called == n_calls >= 1

\* The number of columns of the data given, as columns or as rows.
ColumnCount ==
    IF columns.some THEN Len(columns.val) ELSE Len(_transpose(rows.val))

\* The arguments are malformed: both or neither of rows and columns, an
\* alignment list whose length is not the column count, or an alignment that
\* is none of LEFT, CENTER, RIGHT.
Malformed ==
    \/ rows.some /\ columns.some
    \/ ~rows.some /\ ~columns.some
    \/ alignment.kind = "list" /\ Len(alignment.list) # ColumnCount
    \/ alignment.kind = "list"
       /\ \E i \in DOMAIN alignment.list :
            alignment.list[i] \notin {LEFT, CENTER, RIGHT}
    \/ alignment.kind = "int" /\ alignment.int \notin {LEFT, CENTER, RIGHT}

\* C21: format_table called with both or neither of rows and columns, with
\* an alignment list (of any length, zero included) that has not one entry per
\* column, or with an alignment tag that is none of LEFT, CENTER, RIGHT,
\* raises the caller error and returns no table.
C21_MalformedRejected ==
    (Called /\ Malformed) => raised = "ValueError"

\* C22: with wrap=true, the final column widths plus the padding of every
\* column exceed the terminal width by at most 1 per column, and when the
\* natural widths with their padding fit the terminal the final widths are
\* the natural ones.
C22_WidthConservation ==
    (Called /\ wrap /\ col_widths # <<>>) =>
        /\ Sum(col_widths) + padding * Len(col_widths)
             <= terminal_width + Len(col_widths)
        /\ Sum(natural_widths) + padding * Len(natural_widths) <= terminal_width
             => col_widths = natural_widths

\* A table of two columns was shrunk to fit, and one that fits was left alone.
C22_Witness ==
    /\ Called
    /\ wrap
    /\ raised = "none"
    /\ Len(col_widths) = 2
    /\ padding > 0
    /\ col_widths # natural_widths

\* C23: with wrap=true and natural widths of at least 1, every final column
\* width is at least 1, on every terminal and with every padding.
C23_WidthsAtLeastOne ==
    (/\ Called
     /\ wrap
     /\ natural_widths # <<>>
     /\ \A i \in DOMAIN natural_widths : natural_widths[i] >= 1) =>
        /\ Len(col_widths) = Len(natural_widths)
        /\ \A i \in DOMAIN col_widths : col_widths[i] >= 1

\* |x|
Abs(x) == IF x < 0 THEN 0 - x ELSE x

\* C24: when the natural widths exceed the available width by an overflow,
\* the reduction of a column is overflow * w^3 / (sum of the cubes) rounded
\* to an integer, these reductions add up to the overflow before the rounding,
\* and a column no wider than another is reduced by no more than it.
C24_CubeShrink ==
    LET cube(i) == natural_widths[i] * natural_widths[i] * natural_widths[i]
        cubes == Sum([i \in DOMAIN natural_widths |-> cube(i)])
        overflow == Sum(natural_widths) - (terminal_width - padding * Len(natural_widths))
        reduction(i) == natural_widths[i] - col_widths[i]
    IN (Called /\ wrap /\ col_widths # <<>> /\ overflow > 0) =>
         /\ \A i \in DOMAIN col_widths :
              2 * Abs(reduction(i) * cubes - overflow * cube(i)) <= cubes
         /\ Sum([i \in DOMAIN natural_widths |-> overflow * cube(i)]) = overflow * cubes
         /\ \A i, j \in DOMAIN col_widths :
              natural_widths[i] <= natural_widths[j] =>
                /\ overflow * cube(i) <= overflow * cube(j)
                /\ reduction(i) <= reduction(j)

\* Two columns of different natural widths were shrunk, the wider by more.
C24_Witness ==
    /\ Called
    /\ wrap
    /\ Len(col_widths) = 2
    /\ natural_widths[1] < natural_widths[2]
    /\ natural_widths[1] - col_widths[1] > 0
    /\ natural_widths[2] - col_widths[2] > natural_widths[1] - col_widths[1]

\* The call of the scenario: columns [["alice", "bob"], ["30", "7"]], no
\* headers, padding 2, no alignment given.
Scenario ==
    /\ Called
    /\ ~rows.some
    /\ columns = Some(ScenarioColumns)
    /\ ~headers.some
    /\ padding = 2
    /\ alignment = NoAlignment

\* C25 as stated: the scenario's output is "alice 30 \n" + "bob   7  \n".
C25_ScenarioOutput ==
    Scenario =>
        returned = <<"a", "l", "i", "c", "e", " ", "3", "0", " ", "\n",
                     "b", "o", "b", " ", " ", " ", "7", " ", " ", "\n">>

\* C25: with wrap off, or on a terminal of at least 11 columns, the scenario's
\* output is "alice  30  \n" + "bob    7   ": every cell left-justified to the
\* natural width of its column and followed by the 2 blanks of the padding,
\* the two lines joined by one newline and none at the end.
C25_ScenarioJustified ==
    (Scenario /\ (~wrap \/ terminal_width >= 11)) =>
        /\ raised = "none"
        /\ returned = <<"a", "l", "i", "c", "e", " ", " ", "3", "0", " ", " ", "\n",
                        "b", "o", "b", " ", " ", " ", " ", "7", " ", " ", " ">>

\* The scenario was run with wrap on, on the terminal of 80 columns.
C25_Witness == Scenario /\ wrap /\ terminal_width = 80 /\ raised = "none"

\* Exactly one of rows and columns was given, and every column of the table
\* is empty once the headers are in (a table without columns included).
EmptyTable ==
    /\ rows.some # columns.some
    /\ LET cols == IF columns.some THEN columns.val
                   ELSE IF Truthy(headers)
                   THEN InsertHeaders(_transpose(rows.val), headers.val)
                   ELSE _transpose(rows.val)
       IN \A i \in DOMAIN cols : cols[i] = <<>>

\* C26: a table whose every column is empty after the header insertion,
\* given as rows or as columns and of any number of columns, yields the empty
\* string as a normal result.
C26_EmptyTable ==
    (Called /\ EmptyTable) => (raised = "none" /\ returned = <<>>)

FatalChecked == {"resume", "file_status", "activity", "excluded_add", "excluded_remove"}
Guarded == {"resume_sync", "get_file_status", "curses_loop", "exclude_item", "include_item"}

\* The text without its blanks and line breaks.
Unwrapped(text) == SelectSeq(text, LAMBDA ch : ch \notin {" ", "\n"})

\* The step is the call of one of the guarded operations.
IssuesGuarded ==
    /\ pc = "session_body"
    /\ idx <= Len(BodyCalls(op))
    /\ BodyCalls(op)[idx] \in Guarded
    /\ idx' = idx + 1 \/ pc' = "activity_pull"

\* The step is check_for_fatal_errors finding a fatal error.
FindsFatal ==
    /\ pc = "session_body"
    /\ idx <= Len(BodyCalls(op))
    /\ BodyCalls(op)[idx] = "fatal_errors"
    /\ maestral_err_list' # <<>>
    /\ result' = result

StartsWithSlash(p) == p # <<>> /\ p[1] = "/"

\* The step is the call of exclude_item or include_item.
PassesPath ==
    /\ pc = "session_body"
    /\ idx <= Len(BodyCalls(op))
    /\ BodyCalls(op)[idx] \in {"exclude_item", "include_item"}
    /\ idx' = idx + 1

\* C29: excluded add and excluded remove put a '/' before a path that has
\* none; when the path then is '/' (the empty input included) they say that
\* the root cannot be excluded, or is always included, and return without a
\* session; exclude_item and include_item are called only with a path that
\* starts with '/' and is not '/'.
C29_RootNeverPassed ==
    [][/\ PassesPath => StartsWithSlash(dropbox_path) /\ dropbox_path # <<"/">>
       /\ (pc = "excluded_path" /\ pc' # pc) =>
            /\ dropbox_path' = IF StartsWithSlash(dropbox_path)
                               THEN dropbox_path ELSE <<"/">> \o dropbox_path
            /\ IF dropbox_path \in {<<>>, <<"/">>}
               THEN /\ pc' = "done"
                    /\ m' = "none"
                    /\ log' = log
                    /\ effects' = effects
                    /\ out' = Append(out, IF op = "excluded_add"
                                           THEN "Cannot exclude the root directory."
                                           ELSE "The root directory is always included.")
               ELSE pc' = "session_enter" /\ out' = out]_vars

\* excluded add has called exclude_item with '/a'.
C29_Witness ==
    /\ op = "excluded_add"
    /\ pc = "session_body"
    /\ idx = 3
    /\ dropbox_path = <<"/", "a">>
    /\ "exclude_item" \in effects

\* The step is select_dbx_path_dialog returning a path to its caller.
DialogReturned ==
    /\ pc = "select_dbx_path"
    /\ pc' # pc
    /\ log' = Append(log, "select_dbx_path_dialog_returned")

\* C30: select_dbx_path_dialog returns a path only if the path does not
\* exist, or it existed and was deleted without error after 'replace', or
\* allow_merge holds and 'merge' was chosen; after 'cancel' or a failed
\* deletion it prompts again; with allow_merge false an existing directory is
\* never returned undeleted and never deleted without the confirmation.
C30_DialogReturn ==
    [][(pc = "select_dbx_path") =>
         /\ DialogReturned =>
               \/ path' \notin fs /\ fs' = fs
               \/ /\ path' \in fs
                  /\ fs' = fs \ {path'}
                  /\ choice' = "replace"
                  /\ ~err'
               \/ /\ path' \in fs
                  /\ fs' = fs
                  /\ AllowMerge(op)
                  /\ choice' = "merge"
         /\ ~DialogReturned =>
               /\ fs' = fs
               /\ pc' = pc \/ (pc' = "done" /\ result' = "Aborted")
         /\ fs' # fs => choice' = "replace" /\ ~err'
         /\ ~AllowMerge(op) /\ DialogReturned => path' \notin fs']_vars

\* move-dir's dialog, which takes no merge, has returned a directory that
\* existed and was deleted after the confirmation.
C30_Witness ==
    /\ op = "move_dir"
    /\ ~AllowMerge(op)
    /\ pc = "session_enter"
    /\ choice = "replace"
    /\ ~err
    /\ path \in DirPaths
    /\ path \notin fs
    /\ Count(log, "select_dbx_path_dialog_returned") = 1

\* The step is a call of format_table.
TableCall == n_calls' = n_calls + 1

\* C31: format_table leaves the caller's rows and columns as they were, so a
\* second call with the same lists, headers, padding, alignment and terminal
\* width returns the string the first call returned: no header is inserted
\* twice and no list of cells grows.
C31_CallerListsUnchanged ==
    [][TableCall =>
         /\ rows' = rows
         /\ columns' = columns
         /\ (n_calls = 1 /\ raised = "none") =>
               raised' = "none" /\ returned' = returned]_vars

====
